---- MODULE Spec2Model ----
(***************************************************************************)
(* A model of confkit: the typed converters of confkit/data_types.py and   *)
(* the Config descriptor of confkit/config.py over a ConfigParser store.   *)
(*                                                                         *)
(* Text is a sequence of one-character strings, so that serialization and  *)
(* parsing are computed character by character as the code computes them.  *)
(* A Python value is a record tagged with its type:                        *)
(*   [t |-> "int", i |-> 5]   [t |-> "str", s |-> <<"a">>]                 *)
(*   [t |-> "bool", b |-> TRUE]  [t |-> "float", f |-> 15] (tenths: 1.5)   *)
(*   [t |-> "none"]           [t |-> "list", l |-> <<...>>]                *)
(* The outcome of a call is [ok |-> TRUE, v |-> value] when it returns and *)
(* [ok |-> FALSE, err |-> "ValueError"] when it raises.                    *)
(***************************************************************************)
EXTENDS Integers, Sequences, FiniteSets, TLC

\* ------------------------------------------------------------------ bounds
\* Largest magnitude of the integers fed to the integer converters.
MaxInt == 20
\* Iterations of the int_to_base loop the model follows before it gives up.
MaxDigits == 6
\* Longest bare or tagged digit string fed to Integer.convert.
MaxLitLen == 2
\* Longest element, and longest list, fed to the List converter.
MaxElemLen == 2
MaxListLen == 2
\* Longest run of whitespace around a text fed to Optional.convert.
MaxPad == 1

\* ------------------------------------------------------- program constants
DECIMAL == 10
HEXADECIMAL == 16
OCTAL == 8
BINARY == 2

\* ------------------------------------------------------------------ values
IntV(n) == [t |-> "int", i |-> n]
StrV(s) == [t |-> "str", s |-> s]
BoolV(b) == [t |-> "bool", b |-> b]
FloatV(f) == [t |-> "float", f |-> f]
NoneV == [t |-> "none"]
ListV(l) == [t |-> "list", l |-> l]

Ok(v) == [ok |-> TRUE, v |-> v]
Raise(e) == [ok |-> FALSE, err |-> e]

\* ------------------------------------------------------------------- text
LowerAlpha ==
  <<"a","b","c","d","e","f","g","h","i","j","k","l","m",
    "n","o","p","q","r","s","t","u","v","w","x","y","z">>
UpperAlpha ==
  <<"A","B","C","D","E","F","G","H","I","J","K","L","M",
    "N","O","P","Q","R","S","T","U","V","W","X","Y","Z">>
DigitChars ==
  <<"0","1","2","3","4","5","6","7","8","9">>
Whitespace == {" ", "\n", "\t"}

IndexOf(seq, c) ==
  IF \E k \in 1..Len(seq) : seq[k] = c
  THEN CHOOSE k \in 1..Len(seq) : seq[k] = c
  ELSE 0

\* str.lower() / str.casefold() of one character, and of a text.
LowerChar(c) ==
  IF IndexOf(UpperAlpha, c) > 0 THEN LowerAlpha[IndexOf(UpperAlpha, c)] ELSE c
UpperChar(c) ==
  IF IndexOf(LowerAlpha, c) > 0 THEN UpperAlpha[IndexOf(LowerAlpha, c)] ELSE c
Lower(s) == [k \in 1..Len(s) |-> LowerChar(s[k])]
Upper(s) == [k \in 1..Len(s) |-> UpperChar(s[k])]

\* str.strip(): leading and trailing whitespace removed.
RECURSIVE LStrip(_)
LStrip(s) ==
  IF s # <<>> /\ Head(s) \in Whitespace THEN LStrip(Tail(s)) ELSE s
RECURSIVE RStrip(_)
RStrip(s) ==
  IF s # <<>> /\ s[Len(s)] \in Whitespace
  THEN RStrip(SubSeq(s, 1, Len(s) - 1))
  ELSE s
Strip(s) == LStrip(RStrip(s))

StartsWith(s, p) == Len(s) >= Len(p) /\ SubSeq(s, 1, Len(p)) = p
\* str.removeprefix(p)
RemovePrefix(s, p) == IF StartsWith(s, p) THEN SubSeq(s, Len(p) + 1, Len(s)) ELSE s

Contains(s, c) == \E k \in 1..Len(s) : s[k] = c
Reverse(s) == [k \in 1..Len(s) |-> s[Len(s) + 1 - k]]

RECURSIVE Flatten(_)
Flatten(ss) == IF ss = <<>> THEN <<>> ELSE Head(ss) \o Flatten(Tail(ss))

\* str.join
RECURSIVE Join(_, _)
Join(sep, ss) ==
  IF ss = <<>> THEN <<>>
  ELSE IF Len(ss) = 1 THEN ss[1]
  ELSE ss[1] \o sep \o Join(sep, Tail(ss))

\* ---------------------------------------------------- integers and text
\* The value of a digit character as int() reads it, or -1.
DigitVal(c) ==
  IF IndexOf(DigitChars, c) > 0 THEN IndexOf(DigitChars, c) - 1
  ELSE IF IndexOf(LowerAlpha, LowerChar(c)) > 0
       THEN IndexOf(LowerAlpha, LowerChar(c)) + 9
       ELSE -1

\* The character format() writes for one digit 0..35.
DigitChar(d) == IF d < 10 THEN DigitChars[d + 1] ELSE LowerAlpha[d - 9]

\* The digits of a natural number in a base, most significant first.
RECURSIVE NatStr(_, _)
NatStr(n, b) ==
  IF n < b THEN <<DigitChar(n)>> ELSE Append(NatStr(n \div b, b), DigitChar(n % b))

\* format(n, "x"), format(n, "o"), format(n, "b"): sign, then magnitude.
FormatBase(n, b) == IF n < 0 THEN <<"-">> \o NatStr(-n, b) ELSE NatStr(n, b)

\* str(n) of an int.
IntStr(n) == FormatBase(n, DECIMAL)

RECURSIVE DigitsValue(_, _, _)
DigitsValue(s, b, acc) ==
  IF s = <<>> THEN acc ELSE DigitsValue(Tail(s), b, acc * b + DigitVal(Head(s)))

BasePrefix(b) ==
  CASE b = HEXADECIMAL -> {<<"0","x">>, <<"0","X">>}
    [] b = OCTAL -> {<<"0","o">>, <<"0","O">>}
    [] b = BINARY -> {<<"0","b">>, <<"0","B">>}
    [] OTHER -> {}

\* Python's int(text, base): surrounding whitespace is ignored, then an
\* optional sign, an optional prefix of the base, and one or more digits of
\* the base.  (Underscores between digits are not in the model's alphabet.)
PyIntDigits(u, b) ==
  IF u # <<>> /\ \A k \in 1..Len(u) : DigitVal(u[k]) >= 0 /\ DigitVal(u[k]) < b
  THEN Ok(IntV(DigitsValue(u, b, 0)))
  ELSE Raise("ValueError")
PyIntBody(s, b) ==
  PyIntDigits(IF \E p \in BasePrefix(b) : StartsWith(s, p) THEN SubSeq(s, 3, Len(s)) ELSE s,
              b)
Negated(r) == IF r.ok THEN Ok(IntV(-(r.v.i))) ELSE r
PyIntSigned(s, b) ==
  IF s # <<>> /\ Head(s) = "-" THEN Negated(PyIntBody(Tail(s), b))
  ELSE IF s # <<>> /\ Head(s) = "+" THEN PyIntBody(Tail(s), b)
  ELSE PyIntBody(s, b)
PyInt(text, b) == PyIntSigned(Strip(text), b)

\* str.split("c"): the pieces between occurrences of the character.
RECURSIVE Split(_, _)
SplitAt(s, c, k) == <<SubSeq(s, 1, k - 1)>> \o Split(SubSeq(s, k + 1, Len(s)), c)
Split(s, c) ==
  IF ~Contains(s, c) THEN <<s>>
  ELSE SplitAt(s, c, CHOOSE j \in 1..Len(s) : s[j] = c /\ \A m \in 1..(j - 1) : s[m] # c)


\* -------------------------------------------------------------- converters
\* A converter is a record: kind, default, value, and base (Integer, Hex,
\* Octal), inner (Optional) or elem (List).  BaseDataType.__init__ sets the
\* value to the default, whatever the default's type.
BaseDataType(kind, default) == [kind |-> kind, default |-> default, value |-> default]

\* Integer.__init__ and the __init__ of its subclasses Hex and Octal.
IntegerDT(default, base) ==
  [kind |-> "Integer", default |-> default, value |-> default, base |-> base]
HexDT(default) ==
  [kind |-> "Hex", default |-> default, value |-> default, base |-> HEXADECIMAL]
OctalDT(default) ==
  [kind |-> "Octal", default |-> default, value |-> default, base |-> OCTAL]
BinaryDT(default) == BaseDataType("Binary", default)
StringDT(default) == BaseDataType("String", default)
BooleanDT(default) == BaseDataType("Boolean", default)
FloatDT(default) == BaseDataType("Float", default)
NoneTypeDT == BaseDataType("NoneType", NoneV)
\* Optional.__init__ only keeps the wrapped converter.
OptionalDT(inner) == [kind |-> "Optional", inner |-> inner]
ListDT(default, elem) ==
  [kind |-> "List", default |-> default, value |-> default, elem |-> elem]

\* Optional.default and Optional.value are properties onto the inner converter.
RECURSIVE DefaultOf(_)
DefaultOf(dt) == IF dt.kind = "Optional" THEN DefaultOf(dt.inner) ELSE dt.default
RECURSIVE ValueOf(_)
ValueOf(dt) == IF dt.kind = "Optional" THEN ValueOf(dt.inner) ELSE dt.value
RECURSIVE WithValue(_, _)
WithValue(dt, v) ==
  IF dt.kind = "Optional"
  THEN [dt EXCEPT !.inner = WithValue(dt.inner, v)]
  ELSE [dt EXCEPT !.value = v]

\* ------------------------------------------------------------ str(value)
\* str(x) of a float with one decimal: "1.5", "-0.5", "2.0".
FloatMagStr(m) == NatStr(m \div 10, DECIMAL) \o <<".">> \o <<DigitChar(m % 10)>>
FloatStr(f) == IF f < 0 THEN <<"-">> \o FloatMagStr(-f) ELSE FloatMagStr(f)

\* Python's str() of a value.
PyStr(v) ==
  CASE v.t = "int" -> IntStr(v.i)
    [] v.t = "str" -> v.s
    [] v.t = "bool" -> IF v.b THEN <<"T","r","u","e">> ELSE <<"F","a","l","s","e">>
    [] v.t = "float" -> FloatStr(v.f)
    [] v.t = "none" -> <<"N","o","n","e">>

\* Python's float(text) on the texts of the model: surrounding whitespace,
\* a sign, digits, and at most one decimal.
IsDecimalDigits(x) == \A k \in 1..Len(x) : IndexOf(DigitChars, x[k]) > 0
PyFloatMag(whole, frac) ==
  IF IsDecimalDigits(whole) /\ IsDecimalDigits(frac)
     /\ Len(whole) + Len(frac) > 0 /\ Len(frac) <= 1
  THEN Ok(FloatV(DigitsValue(whole, DECIMAL, 0) * 10
                   + (IF frac = <<>> THEN 0 ELSE DigitVal(frac[1]))))
  ELSE Raise("ValueError")
PyFloatParts(parts) ==
  IF Len(parts) = 1 THEN PyFloatMag(parts[1], <<>>)
  ELSE IF Len(parts) = 2 THEN PyFloatMag(parts[1], parts[2])
  ELSE Raise("ValueError")
NegatedFloat(r) == IF r.ok THEN Ok(FloatV(-(r.v.f))) ELSE r
PyFloatSigned(s) ==
  IF s # <<>> /\ Head(s) = "-" THEN NegatedFloat(PyFloatParts(Split(Tail(s), ".")))
  ELSE IF s # <<>> /\ Head(s) = "+" THEN PyFloatParts(Split(Tail(s), "."))
  ELSE PyFloatParts(Split(s, "."))
PyFloat(text) == PyFloatSigned(Strip(text))

\* ------------------------------------------------------------- convert
\* A Boolean.convert that compares the text as given, without lower().
BooleanConvertExact(text) ==
  IF text \in {<<"t","r","u","e">>, <<"1">>, <<"y","e","s">>} THEN Ok(BoolV(TRUE))
  ELSE IF text \in {<<"f","a","l","s","e">>, <<"0">>, <<"n","o">>} THEN Ok(BoolV(FALSE))
  ELSE Raise("ValueError")

\* Boolean.convert
BooleanConvert(text) ==
  IF Lower(text) \in {<<"t","r","u","e">>, <<"1">>, <<"y","e","s">>} THEN Ok(BoolV(TRUE))
  ELSE IF Lower(text) \in {<<"f","a","l","s","e">>, <<"0">>, <<"n","o">>} THEN Ok(BoolV(FALSE))
  ELSE Raise("ValueError")

\* NoneType.null_values
NullValues == {<<"n","o","n","e">>, <<"n","u","l","l">>, <<"n","i","l">>}

\* A NoneType.convert that compares the text as given, whitespace included.
NoneTypeConvertUnstripped(text) == Lower(text) \in NullValues

\* NoneType.convert: a bool, whether the text is a null token.
NoneTypeConvert(text) == Strip(Lower(text)) \in NullValues

\* Integer.convert
\* The tagged branch: base_str, val_str = value.split("c"); int(base_str)
\* must be the converter's base; then int(val_str, self.base).
IntegerConvertTagged(base, tag, digits) ==
  IF ~tag.ok THEN tag
  ELSE IF tag.v.i # base THEN Raise("ValueError")
  ELSE PyInt(digits, base)
IntegerConvertParts(base, parts) ==
  IF Len(parts) # 2 THEN Raise("ValueError")
  ELSE IntegerConvertTagged(base, PyInt(parts[1], DECIMAL), parts[2])
IntegerConvert(base, text) ==
  IF Contains(text, "c") THEN IntegerConvertParts(base, Split(text, "c"))
  ELSE PyInt(text, base)

\* Hex.convert, Octal.convert, Binary.convert
HexConvert(text) == PyInt(RemovePrefix(text, <<"0","x">>), HEXADECIMAL)
OctalConvert(text) == PyInt(RemovePrefix(text, <<"0","o">>), OCTAL)
BinaryConvert(text) == PyInt(RemovePrefix(text, <<"0","b">>), BINARY)

\* List.separator, List.escape_char
Separator == ","
EscapeChar == "\\"

\* ------------------------------------------------------------ TimeDelta
\* A datetime.timedelta: secs is the floor of its total seconds (negative
\* for a negative duration) and micros the microseconds above it.
DurV(secs, micros) == [t |-> "timedelta", secs |-> secs, micros |-> micros]
Million == 1000000
\* timedelta(seconds=secs, microseconds=micros): the normalised duration.
Timedelta(secs, micros) == DurV(secs + (micros \div Million), micros % Million)
\* -td and abs(td)
NegDur(d) == Timedelta(-(d.secs), -(d.micros))
AbsDur(d) == IF d.secs < 0 THEN NegDur(d) ELSE d

TimeDeltaDT(default) == BaseDataType("TimeDelta", default)

\* A float read from a decimal numeral: whole units and millionths.
Num(whole, frac) == [whole |-> whole, frac |-> frac]
NumNorm(whole, frac) == Num(whole + (frac \div Million), frac % Million)
NumAdd(a, b) == NumNorm(a.whole + b.whole, a.frac + b.frac)
\* float(x) * m for a whole multiplier m; the product of the millionths is
\* taken in two halves to stay within the integers of the checker.
NumScale(n, m) ==
  NumNorm(n.whole * m + (((n.frac \div 1000) * m) \div 1000),
          ((((n.frac \div 1000) * m) % 1000) * 1000) + ((n.frac % 1000) * m))

\* The end of the longest run of decimal digits of s from index i (i - 1
\* when s has no digit at i): the regex \d+.
RECURSIVE DigitsEnd(_, _)
DigitsEnd(s, i) ==
  IF i <= Len(s) /\ IndexOf(DigitChars, s[i]) > 0 THEN DigitsEnd(s, i + 1) ELSE i - 1
\* The end of the match of \d+(?:\.\d+)? at i, given the end e of its \d+.
NumberEndFrom(s, e) ==
  IF e + 2 <= Len(s) /\ s[e + 1] = "." /\ IndexOf(DigitChars, s[e + 2]) > 0
  THEN DigitsEnd(s, e + 2) ELSE e
NumberEnd(s, i) ==
  IF i <= Len(s) /\ IndexOf(DigitChars, s[i]) > 0
  THEN NumberEndFrom(s, DigitsEnd(s, i)) ELSE i - 1

\* The millionths of the fraction digits f of a numeral: the digits past
\* the sixth round the sixth.
FracMillionths(f) ==
  IF Len(f) <= 6
  THEN DigitsValue(f \o [k \in 1..(6 - Len(f)) |-> "0"], DECIMAL, 0)
  ELSE DigitsValue(SubSeq(f, 1, 6), DECIMAL, 0) + (IF DigitVal(f[7]) >= 5 THEN 1 ELSE 0)
\* float(x) of a numeral x matched by \d+(?:\.\d+)?
NumberOfParts(parts) ==
  IF Len(parts) = 1 THEN Num(DigitsValue(parts[1], DECIMAL, 0), 0)
  ELSE NumNorm(DigitsValue(parts[1], DECIMAL, 0), FracMillionths(parts[2]))
NumberValue(x) == NumberOfParts(Split(x, "."))

\* ---- TimeDelta._parse_iso8601_duration
\* The groups (\d+(?:\.\d+)?)<letter> of the pattern from index i on, each
\* optional and in the order of letters: the numerals matched ("" for a group
\* that took no part) and the index after the last group.
RECURSIVE IsoGroups(_, _, _, _)
IsoGroupAt(s, i, e, letters, got) ==
  IF e >= i /\ e < Len(s) /\ s[e + 1] = Head(letters)
  THEN IsoGroups(s, e + 2, Tail(letters), Append(got, SubSeq(s, i, e)))
  ELSE IsoGroups(s, i, Tail(letters), Append(got, <<>>))
IsoGroups(s, i, letters, got) ==
  IF letters = <<>> THEN [next |-> i, got |-> got]
  ELSE IsoGroupAt(s, i, NumberEnd(s, i), letters, got)

NoMatch == [matched |-> FALSE]
\* The time part (?:T(...)?)? after the date groups d, then the end $.
IsoTimeEnd(s, d, t) ==
  IF t.next = Len(s) + 1 THEN [matched |-> TRUE, groups |-> d.got \o t.got] ELSE NoMatch
IsoTime(s, d) ==
  IF d.next = Len(s) + 1
  THEN [matched |-> TRUE, groups |-> d.got \o << <<>>, <<>>, <<>> >>]
  ELSE IF s[d.next] = "T"
  THEN IsoTimeEnd(s, d, IsoGroups(s, d.next + 1, <<"H", "M", "S">>, <<>>))
  ELSE NoMatch
\* re.match(pattern, value.upper())
IsoMatch(s) ==
  IF s # <<>> /\ s[1] = "P" THEN IsoTime(s, IsoGroups(s, 2, <<"Y", "M", "D">>, <<>>))
  ELSE NoMatch

\* float(x) if x else 0
GroupValue(x) == IF x = <<>> THEN Num(0, 0) ELSE NumberValue(x)
\* timedelta(days=total_days, seconds=total_seconds)
TimedeltaOfDays(days, seconds) ==
  Timedelta(NumScale(days, 86400).whole + seconds.whole,
            NumScale(days, 86400).frac + seconds.frac)
\* The duration of the groups with the minutes group read as months too.
IsoDurationMonths(g) ==
  TimedeltaOfDays(
    NumAdd(NumAdd(NumScale(GroupValue(g[1]), 365), NumScale(GroupValue(g[2]), 30)),
           NumAdd(GroupValue(g[3]), NumScale(GroupValue(g[5]), 30))),
    NumAdd(NumScale(GroupValue(g[4]), 3600), GroupValue(g[6])))
IsoDuration(g) ==
  TimedeltaOfDays(
    NumAdd(NumAdd(NumScale(GroupValue(g[1]), 365), NumScale(GroupValue(g[2]), 30)),
           GroupValue(g[3])),
    NumAdd(NumAdd(NumScale(GroupValue(g[4]), 3600), NumScale(GroupValue(g[5]), 60)),
           GroupValue(g[6])))
ParseIso8601Match(m) ==
  IF m.matched THEN Ok(IsoDuration(m.groups)) ELSE Raise("ValueError")
ParseIso8601Duration(value) == ParseIso8601Match(IsoMatch(Upper(value)))

\* ---- TimeDelta._parse_flexible_duration
IsDigits(x) == x # <<>> /\ IsDecimalDigits(x)
\* ^(\d+):(\d+):(\d+)(?:\.(\d+))?$ and ^(\d+):(\d+)(?:\.(\d+))?$ on the
\* fields f between the colons.
IsClock(f) ==
  /\ Len(f) \in {2, 3}
  /\ \A k \in 1..(Len(f) - 1) : IsDigits(f[k])
  /\ Len(Split(f[Len(f)], ".")) \in {1, 2}
  /\ \A k \in 1..Len(Split(f[Len(f)], ".")) : IsDigits(Split(f[Len(f)], ".")[k])
\* int(hours) * 3600 + int(minutes) * 60 + int(seconds), or without hours.
ClockWhole(f) ==
  IF Len(f) = 3
  THEN DigitsValue(f[1], DECIMAL, 0) * 3600 + DigitsValue(f[2], DECIMAL, 0) * 60
  ELSE DigitsValue(f[1], DECIMAL, 0) * 60
\* total_seconds += float(f"0.{microseconds}"); timedelta(seconds=total_seconds)
ClockDuration(f) ==
  Timedelta(ClockWhole(f) + NumberValue(f[Len(f)]).whole, NumberValue(f[Len(f)]).frac)

\* units[unit], or 0 for a unit that is not a key of units.
UnitSeconds(u) ==
  CASE u \in {<<"w">>, <<"w","e","e","k">>, <<"w","e","e","k","s">>} -> 604800
    [] u \in {<<"d">>, <<"d","a","y">>, <<"d","a","y","s">>} -> 86400
    [] u \in {<<"h">>, <<"h","o","u","r">>, <<"h","o","u","r","s">>, <<"h","r">>,
              <<"h","r","s">>} -> 3600
    [] u \in {<<"m">>, <<"m","i","n">>, <<"m","i","n","s">>,
              <<"m","i","n","u","t","e">>, <<"m","i","n","u","t","e","s">>} -> 60
    [] u \in {<<"s">>, <<"s","e","c">>, <<"s","e","c","s">>,
              <<"s","e","c","o","n","d">>, <<"s","e","c","o","n","d","s">>} -> 1
    [] OTHER -> 0

\* The ends of the runs \s* and [a-z]+ of s from index i (i - 1 when empty).
RECURSIVE SpaceEnd(_, _)
SpaceEnd(s, i) == IF i <= Len(s) /\ s[i] \in Whitespace THEN SpaceEnd(s, i + 1) ELSE i - 1
RECURSIVE LettersEnd(_, _)
LettersEnd(s, i) ==
  IF i <= Len(s) /\ IndexOf(LowerAlpha, s[i]) > 0 THEN LettersEnd(s, i + 1) ELSE i - 1

\* pattern.findall(value) for (\d+(?:\.\d+)?)\s*([a-z]+): the pairs of numeral
\* and unit, scanning from index i, a failed attempt moving one index on.
RECURSIVE FindAll(_, _, _)
FindAllUnit(s, i, e, w, l, acc) ==
  IF l > w
  THEN FindAll(s, l + 1, Append(acc, <<SubSeq(s, i, e), SubSeq(s, w + 1, l)>>))
  ELSE FindAll(s, i + 1, acc)
FindAllSpace(s, i, e, w, acc) == FindAllUnit(s, i, e, w, LettersEnd(s, w + 1), acc)
FindAllNumber(s, i, e, acc) ==
  IF e >= i THEN FindAllSpace(s, i, e, SpaceEnd(s, e + 1), acc) ELSE FindAll(s, i + 1, acc)
FindAll(s, i, acc) ==
  IF i > Len(s) THEN acc ELSE FindAllNumber(s, i, NumberEnd(s, i), acc)

\* The loop over matches: an unknown unit raises, the others add
\* float(num_str) * units[unit]; then timedelta(seconds=total_seconds).
RECURSIVE SumPairs(_, _)
SumPairs(matches, total) ==
  IF matches = <<>> THEN Ok(Timedelta(total.whole, total.frac))
  ELSE IF UnitSeconds(Head(matches)[2]) = 0 THEN Raise("ValueError")
  ELSE SumPairs(Tail(matches),
                NumAdd(total, NumScale(NumberValue(Head(matches)[1]),
                                       UnitSeconds(Head(matches)[2]))))

\* timedelta(seconds=float(u)) of an unsigned text: float() reads digits
\* with at most one point, "inf", "infinity" and "nan"; an infinity makes
\* timedelta raise OverflowError, a nan ValueError.  (Exponents and
\* underscores are not in the alphabet of the modelled texts.)
FloatMagnitude(u, p) ==
  IF u \in {<<"i","n","f">>, <<"i","n","f","i","n","i","t","y">>} THEN Raise("OverflowError")
  ELSE IF /\ Len(p) \in {1, 2}
          /\ \A k \in 1..Len(p) : IsDecimalDigits(p[k])
          /\ \E k \in 1..Len(p) : p[k] # <<>>
  THEN Ok(NumberOfParts(p))
  ELSE Raise("ValueError")
NegatedSeconds(r) == IF r.ok THEN Ok(Timedelta(-(r.v.whole), -(r.v.frac))) ELSE r
PlainSeconds(r) == IF r.ok THEN Ok(Timedelta(r.v.whole, r.v.frac)) ELSE r
FloatSeconds(s) ==
  IF s # <<>> /\ Head(s) = "-" THEN NegatedSeconds(FloatMagnitude(Tail(s), Split(Tail(s), ".")))
  ELSE IF s # <<>> /\ Head(s) = "+" THEN PlainSeconds(FloatMagnitude(Tail(s), Split(Tail(s), ".")))
  ELSE PlainSeconds(FloatMagnitude(s, Split(s, ".")))

FlexiblePairs(s, matches) ==
  IF matches = <<>> THEN FloatSeconds(s) ELSE SumPairs(matches, Num(0, 0))
ParseFlexibleLowered(s) ==
  IF IsClock(Split(s, ":")) THEN Ok(ClockDuration(Split(s, ":")))
  ELSE FlexiblePairs(s, FindAll(s, 1, <<>>))
ParseFlexibleDuration(value) == ParseFlexibleLowered(Strip(Lower(value)))

\* TimeDelta.convert
TimeDeltaConvertStripped(s) ==
  IF StartsWith(Upper(s), <<"P">>) THEN ParseIso8601Duration(s)
  ELSE ParseFlexibleDuration(s)
TimeDeltaConvert(value) ==
  IF Strip(value) = <<>> THEN Raise("ValueError")
  ELSE TimeDeltaConvertStripped(Strip(value))

RECURSIVE Convert(_, _)

\* The while loop of List.convert at index i (1-based), then the last element.
RECURSIVE ListScan(_, _, _, _, _)
\* result.append(self._data_type.convert(current)) at a separator, at the end.
ListScanAppend(c, elem, value, i, result) ==
  IF c.ok THEN ListScan(elem, value, i, <<>>, Append(result, c.v)) ELSE c
ListScanEnd(c, result) == IF c.ok THEN Ok(ListV(Append(result, c.v))) ELSE c
ListScan(elem, value, i, current, result) ==
  IF i <= Len(value)
  THEN IF i < Len(value) /\ value[i] = EscapeChar /\ value[i + 1] = Separator
       THEN ListScan(elem, value, i + 2, Append(current, Separator), result)
       ELSE IF i < Len(value) /\ value[i] = EscapeChar /\ value[i + 1] = EscapeChar
       THEN ListScan(elem, value, i + 2, Append(current, EscapeChar), result)
       ELSE IF value[i] = Separator
       THEN ListScanAppend(Convert(elem, current), elem, value, i + 1, result)
       ELSE ListScan(elem, value, i + 1, Append(current, value[i]), result)
  ELSE ListScanEnd(Convert(elem, current), result)

\* A List.convert that ignores a separator at the end of the text.
ListConvertChomped(elem, value) ==
  IF value = <<>> THEN Ok(ListV(<<>>))
  ELSE IF value[Len(value)] = Separator
  THEN ListScan(elem, SubSeq(value, 1, Len(value) - 1), 1, <<>>, <<>>)
  ELSE ListScan(elem, value, 1, <<>>, <<>>)

\* List.convert
ListConvert(elem, value) ==
  IF value = <<>> THEN Ok(ListV(<<>>)) ELSE ListScan(elem, value, 1, <<>>, <<>>)

\* Optional.convert
OptionalConvert(inner, text) ==
  IF NoneTypeConvert(text) THEN Ok(NoneV) ELSE Convert(inner, text)

\* convert of any converter.
Convert(dt, text) ==
  CASE dt.kind = "Integer" -> IntegerConvert(dt.base, text)
    [] dt.kind = "Hex" -> HexConvert(text)
    [] dt.kind = "Octal" -> OctalConvert(text)
    [] dt.kind = "Binary" -> BinaryConvert(text)
    [] dt.kind = "String" -> Ok(StrV(text))
    [] dt.kind = "Float" -> PyFloat(text)
    [] dt.kind = "Boolean" -> BooleanConvert(text)
    [] dt.kind = "NoneType" -> Ok(BoolV(NoneTypeConvert(text)))
    [] dt.kind = "Optional" -> OptionalConvert(dt.inner, text)
    [] dt.kind = "List" -> ListConvert(dt.elem, text)
    [] dt.kind = "TimeDelta" -> TimeDeltaConvert(text)

\* ------------------------------------------------------------- __str__
\* The outcome of __str__: the text and the converter as __str__ leaves it,
\* an exception, or no return at all.
Returned(text, dt) == [st |-> "ok", text |-> text, dt |-> dt]
Raised(e) == [st |-> "raise", err |-> e]
Hangs == [st |-> "hang"]

\* One iteration of the while loop of Integer.int_to_base.
IntToBaseStep(loop, base) ==
  [number |-> loop.number \div base,
   digits |-> Append(loop.digits, IntStr(loop.number % base))]

\* The return of Integer.int_to_base: int("".join(reversed(digits))).
IntToBaseReturn(digits) == PyInt(Flatten(Reverse(digits)), DECIMAL).v.i

\* Integer.int_to_base run to its end.  Floor division of a negative number
\* by the base never reaches 0, so the loop does not end for number < 0.
RECURSIVE IntToBaseRun(_, _)
IntToBaseRun(loop, base) ==
  IF loop.number = 0 THEN Ok(IntV(IntToBaseReturn(loop.digits)))
  ELSE IF loop.number < 0 THEN Raise("hang")
  ELSE IntToBaseRun(IntToBaseStep(loop, base), base)
IntToBase(number, base) ==
  IF number = 0 THEN Ok(IntV(0))
  ELSE IntToBaseRun([number |-> number, digits |-> <<>>], base)

\* int(x) of a value, as Integer.__str__ applies it to self.value.
IntOf(v) ==
  CASE v.t = "int" -> Ok(v)
    [] v.t = "bool" -> Ok(IntV(IF v.b THEN 1 ELSE 0))
    [] v.t = "float" -> Ok(IntV(IF v.f >= 0 THEN v.f \div 10 ELSE -((-v.f) \div 10)))
    [] v.t = "str" -> PyInt(v.s, DECIMAL)
    [] OTHER -> Raise("TypeError")

\* The text Integer.__str__ returns for a base other than 10.
TaggedText(base, value) == IntStr(base) \o <<"c">> \o IntStr(value)

\* Integer.__str__: for a base other than 10 it assigns self.value.
\* An Integer.__str__ that keeps the digits it built as text in self.value.
IntegerStrAssignText(dt, r) ==
  IF ~r.ok THEN Hangs
  ELSE Returned(TaggedText(dt.base, r.v.i), [dt EXCEPT !.value = StrV(IntStr(r.v.i))])
IntegerStrAssign(dt, r) ==
  IF ~r.ok THEN Hangs
  ELSE Returned(TaggedText(dt.base, r.v.i), [dt EXCEPT !.value = r.v])
IntegerStrBase(dt, n) ==
  IF ~n.ok THEN Raised(n.err) ELSE IntegerStrAssign(dt, IntToBase(n.v.i, dt.base))
IntegerStr(dt) ==
  IF dt.base = DECIMAL THEN Returned(PyStr(dt.value), dt)
  ELSE IntegerStrBase(dt, IntOf(dt.value))

\* f"{value:x}" and its like need an int (a bool is one).
FormatValue(v, b) ==
  CASE v.t = "int" -> Ok(StrV(FormatBase(v.i, b)))
    [] v.t = "bool" -> Ok(StrV(FormatBase(IF v.b THEN 1 ELSE 0, b)))
    [] OTHER -> Raise("TypeError")

Prefixed(dt, prefix, f) == IF f.ok THEN Returned(prefix \o f.v.s, dt) ELSE Raised(f.err)
PrefixedStr(dt, prefix, b) == Prefixed(dt, prefix, FormatValue(dt.value, b))

\* A Hex.__str__ that writes the value in base 10 after the prefix.
HexStrDecimal(dt) == PrefixedStr(dt, <<"0","x">>, DECIMAL)

\* Hex.__str__, Octal.__str__, Binary.__str__
HexStr(dt) == PrefixedStr(dt, <<"0","x">>, HEXADECIMAL)
OctalStr(dt) == PrefixedStr(dt, <<"0","o">>, OCTAL)
BinaryStr(dt) == PrefixedStr(dt, <<"0","b">>, BINARY)

\* str.replace(c, rep) for a one-character c.
Replace(s, c, rep) == Flatten([k \in 1..Len(s) |-> IF s[k] = c THEN rep ELSE <<s[k]>>])

\* An escaping that handles the separator first, then the escape character.
EscapeItemSeparatorFirst(text) ==
  Replace(Replace(text, Separator, <<EscapeChar, Separator>>),
          EscapeChar, <<EscapeChar, EscapeChar>>)

\* The escaping of one item in List.__str__: the escape character first,
\* then the separator.
EscapeItem(text) ==
  Replace(Replace(text, EscapeChar, <<EscapeChar, EscapeChar>>),
          Separator, <<EscapeChar, Separator>>)

\* List.__str__
ListStr(dt) ==
  IF dt.value.t # "list" THEN Raised("TypeError")
  ELSE Returned(Join(<<Separator>>,
                     [k \in 1..Len(dt.value.l) |-> EscapeItem(PyStr(dt.value.l[k]))]),
                dt)

\* ---- TimeDelta.__str__
RECURSIVE Pow10(_)
Pow10(k) == IF k = 0 THEN 1 ELSE 10 * Pow10(k - 1)
RECURSIVE RStripZeros(_)
RStripZeros(x) ==
  IF x # <<>> /\ x[Len(x)] = "0" THEN RStripZeros(SubSeq(x, 1, Len(x) - 1)) ELSE x
\* units / 10^dec in fixed notation, without trailing zeros or a bare point.
FixedStr(units, dec) ==
  IntStr(units \div Pow10(dec))
    \o (IF units % Pow10(dec) = 0 THEN <<>>
        ELSE <<".">> \o RStripZeros([k \in 1..(dec - Len(IntStr(units % Pow10(dec)))) |-> "0"]
                                     \o IntStr(units % Pow10(dec))))
\* f"{secs + microseconds / 1_000_000:g}" for secs in 0..59 and microseconds
\* in 1..999999: six significant digits, in exponent notation below 0.0001.
GFormat(secs, microseconds) ==
  IF secs = 0 /\ microseconds < 10 THEN IntStr(microseconds) \o <<"e", "-", "0", "6">>
  ELSE IF secs = 0 /\ microseconds < 100
  THEN FixedStr(microseconds, 1) \o <<"e", "-", "0", "5">>
  ELSE IF secs = 0 THEN FixedStr(microseconds, 6)
  ELSE IF secs < 10 THEN FixedStr(secs * 100000 + ((microseconds + 5) \div 10), 5)
  ELSE FixedStr(secs * 10000 + ((microseconds + 50) \div 100), 4)

\* The seconds component, with or without microseconds.
SecondsText(secs, microseconds) ==
  IF secs = 0 /\ microseconds = 0 THEN <<>>
  ELSE IF microseconds # 0 THEN GFormat(secs, microseconds) \o <<"S">>
  ELSE IntStr(secs) \o <<"S">>
\* The part after "T" with every component written, the zero ones too.
TimeTextAllComponents(seconds, microseconds) ==
  IF seconds = 0 /\ microseconds = 0 THEN <<>>
  ELSE <<"T">> \o IntStr(seconds \div 3600) \o <<"H">>
       \o IntStr((seconds % 3600) \div 60) \o <<"M">>
       \o (IF microseconds # 0 THEN GFormat(seconds % 60, microseconds)
           ELSE IntStr(seconds % 60)) \o <<"S">>
\* The part after "T" for the seconds within the day and the microseconds.
TimeText(seconds, microseconds) ==
  IF seconds = 0 /\ microseconds = 0 THEN <<>>
  ELSE <<"T">>
       \o (IF seconds \div 3600 # 0 THEN IntStr(seconds \div 3600) \o <<"H">> ELSE <<>>)
       \o (IF (seconds % 3600) \div 60 # 0
           THEN IntStr((seconds % 3600) \div 60) \o <<"M">> ELSE <<>>)
       \o SecondsText(seconds % 60, microseconds)
\* The text after the sign, of the magnitude td.
MagnitudeText(td) ==
  <<"P">>
    \o (IF td.secs \div 86400 # 0 THEN IntStr(td.secs \div 86400) \o <<"D">> ELSE <<>>)
    \o TimeText(td.secs % 86400, td.micros)
TimeDeltaText(td) ==
  IF td.secs = 0 /\ td.micros = 0 THEN <<"P", "T", "0", "S">>
  ELSE (IF td.secs < 0 THEN <<"-">> ELSE <<>>) \o MagnitudeText(AbsDur(td))
TimeDeltaStr(dt) == Returned(TimeDeltaText(dt.value), dt)

\* BaseDataType.__str__, which Optional inherits: str(self.value).
BaseStr(dt) == Returned(PyStr(ValueOf(dt)), dt)

\* str(converter)
Str(dt) ==
  CASE dt.kind = "Integer" -> IntegerStr(dt)
    [] dt.kind = "Hex" -> HexStr(dt)
    [] dt.kind = "Octal" -> OctalStr(dt)
    [] dt.kind = "Binary" -> BinaryStr(dt)
    [] dt.kind = "List" -> ListStr(dt)
    [] dt.kind = "TimeDelta" -> TimeDeltaStr(dt)
    [] OTHER -> BaseStr(dt)

\* ------------------------------------------------- the ConfigParser store
\* What a ConfigParser holds, and what a file holds once written: the set of
\* sections and the raw text of each option, keyed by <<section, option>>.
NoOpts == [k \in {} |-> <<>>]
EmptyIni == [sections |-> {}, opts |-> NoOpts]

HasSection(ini, section) == section \in ini.sections
HasOption(ini, section, option) ==
  HasSection(ini, section) /\ <<section, option>> \in DOMAIN ini.opts
AddSection(ini, section) == [ini EXCEPT !.sections = @ \cup {section}]

\* ConfigParser.set on an existing section.
IniSet(ini, section, option, raw) ==
  [ini EXCEPT !.opts =
     [k \in DOMAIN ini.opts \cup {<<section, option>>} |->
        IF k = <<section, option>> THEN raw ELSE ini.opts[k]]]

\* BasicInterpolation on get: "%%" reads as "%"; any other use of "%" in the
\* texts of the model is an interpolation error.
RECURSIVE Interpolate(_)
Interpolated(c, r) == IF r.ok THEN Ok(<<c>> \o r.v) ELSE r
Interpolate(raw) ==
  IF raw = <<>> THEN Ok(<<>>)
  ELSE IF Head(raw) # "%" THEN Interpolated(Head(raw), Interpolate(Tail(raw)))
  ELSE IF Len(raw) >= 2 /\ raw[2] = "%"
  THEN Interpolated("%", Interpolate(SubSeq(raw, 3, Len(raw))))
  ELSE Raise("InterpolationSyntaxError")

\* ConfigParser.get(section, option) without a fallback.
IniGet(ini, section, option) ==
  IF ~HasSection(ini, section) THEN Raise("NoSectionError")
  ELSE IF ~HasOption(ini, section, option) THEN Raise("NoOptionError")
  ELSE Interpolate(ini.opts[<<section, option>>])

\* ConfigParser.read(file): the file's sections and options are merged in;
\* the parser strips the whitespace around each value it reads.
IniRead(ini, file) ==
  [sections |-> ini.sections \cup file.sections,
   opts |-> [k \in DOMAIN ini.opts \cup DOMAIN file.opts |->
               IF k \in DOMAIN file.opts THEN Strip(file.opts[k]) ELSE ini.opts[k]]]

\* ConfigParser.write(f): the file then holds what the parser holds.
IniWrite(ini) == ini

\* Config._sanitize_str
SanitizeStr(value) == Replace(value, "%", <<"%","%">>)

\* --------------------------------------------------------- type validation
\* isinstance(value, T) for the type argument T of the converter's class.
IsInstance(v, kind) ==
  CASE kind \in {"Integer", "Hex", "Octal"} -> v.t \in {"int", "bool"}
    [] kind = "Binary" -> v.t \in {"int", "bool", "bytes"}
    [] kind = "String" -> v.t = "str"
    [] kind = "Float" -> v.t = "float"
    [] kind = "Boolean" -> v.t = "bool"
    [] kind = "NoneType" -> v.t = "none"
    [] kind = "List" -> v.t = "list"
    [] kind = "TimeDelta" -> v.t = "timedelta"
    [] OTHER -> FALSE

\* BaseDataType.validate and Optional.validate: True, or InvalidConverterError.
RECURSIVE Validate(_)
Validate(dt) ==
  IF dt.kind = "Optional"
  THEN ValueOf(dt.inner) = NoneV \/ Validate(dt.inner)
  ELSE IsInstance(dt.value, dt.kind)

\* ---------------------------------------------------------- Config points
IsConverter(x) == "kind" \in DOMAIN x

\* A cast that wraps a default of any other type in String.
CastLenient(default) ==
  IF IsConverter(default) THEN Ok(default)
  ELSE CASE default.t = "bool" -> Ok(BooleanDT(default))
         [] default.t = "none" -> Ok(NoneTypeDT)
         [] default.t = "int" -> Ok(IntegerDT(default, DECIMAL))
         [] default.t = "float" -> Ok(FloatDT(default))
         [] OTHER -> Ok(StringDT(default))

\* BaseDataType.cast
Cast(default) ==
  IF IsConverter(default) THEN Ok(default)
  ELSE CASE default.t = "bool" -> Ok(BooleanDT(default))
         [] default.t = "none" -> Ok(NoneTypeDT)
         [] default.t = "int" -> Ok(IntegerDT(default, DECIMAL))
         [] default.t = "float" -> Ok(FloatDT(default))
         [] default.t = "str" -> Ok(StringDT(default))
         [] OTHER -> Raise("InvalidDefaultError")

\* BaseDataType.cast_optional
Wrapped(c) == IF c.ok THEN Ok(OptionalDT(c.v)) ELSE c
CastOptional(default) ==
  IF ~IsConverter(default) /\ default.t = "none" THEN Ok(NoneTypeDT)
  ELSE Wrapped(Cast(default))

Unset == [t |-> "unset"]
\* object(): a value that is no bool, int, float, str, None or converter.
ObjectV == [t |-> "object"]

\* Config._initialize_data_type
InitializeDataType(default, optional) ==
  IF ~optional /\ default # NoneV THEN Cast(default) ELSE CastOptional(default)

NoPoint == [made |-> FALSE]

\* The descriptor Config.__init__ leaves: no _section, _setting or private yet.
\* Two fields are history only: typed, whether the default and every value
\* assigned so far were instances of the converter's type, and assigned, the
\* value of the last assignment.
NewPoint(dt, optional) ==
  [made |-> TRUE, dt |-> dt, optional |-> optional, declared |-> FALSE,
   section |-> "", setting |-> "", private |-> FALSE,
   typed |-> Validate(dt), assigned |-> Unset]

\* Config.validate_strict_type followed by the return of Config.__get__, on
\* the parser Config._parser names.
\* A validate_strict_type without the call of self._data_type.validate().
ValidateConvertedType(pt, c) ==
  IF ~c.ok THEN c
  ELSE IF (pt.optional \/ pt.dt.kind = "Optional") /\ c.v.t \in {DefaultOf(pt.dt).t, "none"}
  THEN c
  ELSE IF c.v.t # DefaultOf(pt.dt).t THEN Raise("InvalidConverterError")
  ELSE c
\* Config.validate_strict_type on the outcome c of convert.
ValidateStrictType(pt, c) ==
  IF ~c.ok THEN c
  ELSE IF ~Validate(pt.dt) THEN Raise("InvalidConverterError")
  ELSE IF (pt.optional \/ pt.dt.kind = "Optional") /\ c.v.t \in {DefaultOf(pt.dt).t, "none"}
  THEN c
  ELSE IF c.v.t # DefaultOf(pt.dt).t THEN Raise("InvalidConverterError")
  ELSE c
ConvertPoint(pt, c, validating) == IF validating THEN ValidateStrictType(pt, c) ELSE c
ReadText(pt, got, validating) ==
  IF ~got.ok THEN got ELSE ConvertPoint(pt, Convert(pt.dt, got.v), validating)
ReadPoint(pt, ini, validating) ==
  ReadText(pt, IniGet(ini, pt.section, pt.setting), validating)

\* ------------------------------------------------------------------ state
VARIABLES
  cfgParser,      \* Config._parser: "UNSET" or a parser
  cfgFile,        \* Config._file: "UNSET" or a file
  hasRead,        \* Config._has_read_config
  writeOnEdit,    \* Config.write_on_edit
  validateTypes,  \* Config.validate_types
  store,          \* the sections and options each parser holds in memory
  disk,           \* the sections and options each file holds
  instances,      \* the owner classes in Config._instance_parsers
  points,         \* the Config descriptors
  last,           \* the last call on the Config layer and its outcome
  conv,           \* the converter a converter run works on
  inp,            \* the input the run was started with
  text,           \* the text the run serialized or was given
  res,            \* the outcome of convert
  loop,           \* number and digits inside Integer.int_to_base
  pc              \* the position of the converter run

cfgVars ==
  <<cfgParser, cfgFile, hasRead, writeOnEdit, validateTypes, store, disk, instances,
    points, last>>
runVars == <<conv, inp, text, res, loop, pc>>
vars ==
  <<cfgParser, cfgFile, hasRead, writeOnEdit, validateTypes, store, disk, instances,
    points, last, conv, inp, text, res, loop, pc>>

NoLoop == [number |-> 0, digits |-> <<>>]
NoRes == [ok |-> FALSE, err |-> "not called"]

\* ---------------------------------------------------------- Config layer
Parsers == {"p1"}
Files == {"f1"}
PointIds == {"d1"}
Owners == {"o1", "o2"}
AttrNames == {"x"}

\* owner.__name__
ClassName(owner) == IF owner = "o2" THEN "B" ELSE "A"

\* What a config file may hold before the program starts.
Preloaded ==
  [sections |-> {"A"}, opts |-> [k \in {<<"A", "x">>} |-> <<"7">>]]

\* The record of a call: the operation, the point, the argument, whether the
\* call reached Config._set, and the outcome.
Called(op, d, arg, wrote, out) ==
  [op |-> op, d |-> d, arg |-> arg, wrote |-> wrote, out |-> out]
Call(op, d, out) == Called(op, d, NoneV, FALSE, out)
NoCall == Call("none", "", NoRes)

\* A call that never returns leaves the single thread of the program inside it.
Hung == Raise("hang")
Alive == last.out # Hung

\* The state before any class of the program is defined: nothing is set.
CfgQuiet ==
  /\ cfgParser = "UNSET"
  /\ cfgFile = "UNSET"
  /\ hasRead = FALSE
  /\ writeOnEdit = TRUE
  /\ validateTypes = TRUE
  /\ store = [p \in Parsers |-> EmptyIni]
  /\ instances = <<>>
  /\ points = [d \in PointIds |-> NoPoint]
  /\ last = NoCall

RunQuiet ==
  /\ conv = [kind |-> "none"]
  /\ inp = [kind |-> "none"]
  /\ text = <<>>
  /\ res = NoRes
  /\ loop = NoLoop
  /\ pc = "idle"

\* Config.set_parser
SetParser(p) ==
  /\ Alive
  /\ cfgParser' = p
  /\ last' = Call("set_parser", "", Ok(NoneV))
  /\ UNCHANGED <<cfgFile, hasRead, writeOnEdit, validateTypes, store, disk, instances, points>>
  /\ UNCHANGED runVars

\* Config.set_file
SetFile(f) ==
  /\ Alive
  /\ cfgFile' = f
  /\ last' = Call("set_file", "", Ok(NoneV))
  /\ UNCHANGED <<cfgParser, hasRead, writeOnEdit, validateTypes, store, disk, instances, points>>
  /\ UNCHANGED runVars

\* Config.write_on_edit = b
SetWriteOnEdit(b) ==
  /\ Alive
  /\ writeOnEdit' = b
  /\ last' = Call("write_on_edit", "", Ok(NoneV))
  /\ UNCHANGED <<cfgParser, cfgFile, hasRead, validateTypes, store, disk, instances, points>>
  /\ UNCHANGED runVars

\* Config.validate_types = b
SetValidateTypes(b) ==
  /\ Alive
  /\ validateTypes' = b
  /\ last' = Call("validate_types", "", Ok(NoneV))
  /\ UNCHANGED <<cfgParser, cfgFile, hasRead, writeOnEdit, store, disk, instances, points>>
  /\ UNCHANGED runVars

\* Config.write: validate_file, then the file is opened for writing (and so
\* emptied) and the parser is written into it.
WriteOutcome(st, dk) ==
  IF cfgFile = "UNSET" THEN [disk |-> dk, out |-> Raise("ValueError")]
  ELSE IF cfgParser = "UNSET"
  THEN [disk |-> [dk EXCEPT ![cfgFile] = EmptyIni], out |-> Raise("AttributeError")]
  ELSE [disk |-> [dk EXCEPT ![cfgFile] = IniWrite(st[cfgParser])], out |-> Ok(NoneV)]

ConfigWrite ==
  /\ Alive
  /\ \E w \in {WriteOutcome(store, disk)} :
       /\ disk' = w.disk
       /\ last' = Call("write", "", w.out)
  /\ UNCHANGED <<cfgParser, cfgFile, hasRead, writeOnEdit, validateTypes, store, instances, points>>
  /\ UNCHANGED runVars

\* The end of Config._set on the stores st2 that hold the new text: the parser
\* is written to the file when write_on_edit is true.
ConfigSetWritten(st2, w) == [store |-> st2, disk |-> w.disk, out |-> w.out]
\* A Config._set that never writes the file.
ConfigSetUnwritten(st2, dk) == [store |-> st2, disk |-> dk, out |-> Ok(NoneV)]
ConfigSetStored(st2, dk) ==
  IF writeOnEdit THEN ConfigSetWritten(st2, WriteOutcome(st2, dk))
  ELSE [store |-> st2, disk |-> dk, out |-> Ok(NoneV)]

WithSection(ini, section) ==
  IF HasSection(ini, section) THEN ini ELSE AddSection(ini, section)

\* Config._set(section, setting, value) on the stores st and files dk: the
\* section is added when missing, then the sanitized text is set.
ConfigSet(st, dk, section, setting, value) ==
  IF cfgParser = "UNSET" THEN [store |-> st, disk |-> dk, out |-> Raise("AttributeError")]
  ELSE ConfigSetStored(
         [st EXCEPT ![cfgParser] =
            IniSet(WithSection(st[cfgParser], section), section, setting, SanitizeStr(value))],
         dk)

\* Config._set(section, setting, str(self._data_type)), s being the outcome of
\* str(): the stores, the files, the converter as str() leaves it, whether
\* Config._set was reached, and the outcome.
SetStrStored(set, dt) ==
  [store |-> set.store, disk |-> set.disk, dt |-> dt, wrote |-> TRUE, out |-> set.out]
SetStr(s, st, dk, section, setting, dt) ==
  IF s.st = "raise"
  THEN [store |-> st, disk |-> dk, dt |-> dt, wrote |-> FALSE, out |-> Raise(s.err)]
  ELSE IF s.st = "hang"
  THEN [store |-> st, disk |-> dk, dt |-> dt, wrote |-> FALSE, out |-> Raise("hang")]
  ELSE SetStrStored(ConfigSet(st, dk, section, setting, s.text), s.dt)

\* Config._read_parser at construction: no _section yet, so the class-level
\* flag, parser and file are used.
ReadParser(st, dk) ==
  IF hasRead THEN st ELSE [st EXCEPT ![cfgParser] = IniRead(st[cfgParser], dk[cfgFile])]

\* Config.__init__: the outcome, and the point when it returns.
Initialized(dt, optional) ==
  IF ~dt.ok THEN dt
  ELSE IF cfgFile = "UNSET" \/ cfgParser = "UNSET" THEN Raise("ValueError")
  ELSE Ok(NewPoint(dt.v, optional))
ConstructOutcome(default, optional) ==
  IF ~optional /\ default = Unset THEN Raise("InvalidDefaultError")
  ELSE Initialized(InitializeDataType(default, optional), optional)

Construct(d, default, optional) ==
  /\ Alive
  /\ ~points[d].made
  /\ \E c \in {ConstructOutcome(default, optional)} :
       IF c.ok
       THEN /\ points' = [points EXCEPT ![d] = c.v]
            /\ store' = ReadParser(store, disk)
            /\ hasRead' = TRUE
            /\ last' = Called("init", d, default, FALSE, Ok(NoneV))
       ELSE /\ last' = Called("init", d, default, FALSE, c)
            /\ UNCHANGED <<points, store, hasRead>>
  /\ UNCHANGED <<cfgParser, cfgFile, writeOnEdit, validateTypes, disk, instances>>
  /\ UNCHANGED runVars

\* Config._setup_instance_config: a fresh parser for an owner not yet known.
SetupInstanceConfig(insts, owner) ==
  IF \E k \in 1..Len(insts) : insts[k].owner = owner THEN insts
  ELSE Append(insts, [owner |-> owner, ini |-> EmptyIni, read |-> FALSE])

\* Config._get_parser of a point with a _section: the parser of the first
\* owner class of that name, else the class-level parser.
GetParser(insts, st, section) ==
  IF \E k \in 1..Len(insts) : ClassName(insts[k].owner) = section
  THEN insts[CHOOSE k \in 1..Len(insts) :
               /\ ClassName(insts[k].owner) = section
               /\ \A j \in 1..(k - 1) : ClassName(insts[j].owner) # section].ini
  ELSE st[cfgParser]

\* Config._ensure_section on self._parser, the class-level parser.
EnsureSection(st, section) ==
  IF HasSection(st[cfgParser], section) THEN st
  ELSE [st EXCEPT ![cfgParser] = AddSection(st[cfgParser], section)]

\* A Config._ensure_option that stores the default whatever the store holds.
EnsureOptionAlways(st, dk, dt, section, setting) ==
  SetStr(Str(dt), st, dk, section, setting, dt)
\* Config._ensure_option, st being the stores _ensure_section leaves.
EnsureOptionIn(st, dk, dt, section, setting) ==
  IF HasOption(st[cfgParser], section, setting)
  THEN [store |-> st, disk |-> dk, dt |-> dt, wrote |-> FALSE, out |-> Ok(NoneV)]
  ELSE SetStr(Str(dt), st, dk, section, setting, dt)
EnsureOption(st, dk, dt, section, setting) ==
  EnsureOptionIn(EnsureSection(st, section), dk, dt, section, setting)

\* The end of Config.__set_name__ after _ensure_option (outcome e): the read
\* of the option (outcome got) on the parser _get_parser returns.
SetNameOutcome(e, got) ==
  IF ~e.out.ok THEN e.out ELSE IF ~got.ok THEN got ELSE Ok(NoneV)

\* Config.__set_name__
SetName(d, owner, name) ==
  /\ Alive
  /\ points[d].made
  /\ ~points[d].declared
  /\ \E insts \in {SetupInstanceConfig(instances, owner)} :
     \E e \in {EnsureOption(store, disk, points[d].dt, ClassName(owner), name)} :
     \E out \in {SetNameOutcome(e, IniGet(GetParser(insts, e.store, ClassName(owner)),
                                           ClassName(owner), name))} :
       /\ instances' = insts
       /\ store' = e.store
       /\ disk' = e.disk
       /\ points' = [points EXCEPT ![d].declared = TRUE,
                                   ![d].section = ClassName(owner),
                                   ![d].setting = name,
                                   ![d].dt = e.dt,
                                   ![d].private = out.ok]
       /\ last' = Called("set_name", d, NoneV, e.wrote, out)
  /\ UNCHANGED <<cfgParser, cfgFile, hasRead, writeOnEdit, validateTypes>>
  /\ UNCHANGED runVars

\* Config.__get__
Get(d) ==
  /\ Alive
  /\ points[d].made
  /\ points[d].declared
  /\ last' = Call("get", d, ReadPoint(points[d], store[cfgParser], validateTypes))
  /\ UNCHANGED <<cfgParser, cfgFile, hasRead, writeOnEdit, validateTypes, store, disk,
                 instances, points>>
  /\ UNCHANGED runVars

\* Config.__set__: the value is assigned, the converter serialized and the
\* text stored; setattr(obj, self.private, value) needs self.private.
SetAttr(w, private) ==
  [w EXCEPT !.out = IF ~w.out.ok THEN w.out
                    ELSE IF ~private THEN Raise("AttributeError")
                    ELSE Ok(NoneV)]
SetOutcome(pt, assigned) ==
  SetAttr(SetStr(Str(assigned), store, disk, pt.section, pt.setting, assigned), pt.private)

Set(d, v) ==
  /\ Alive
  /\ points[d].made
  /\ points[d].declared
  /\ \E w \in {SetOutcome(points[d], WithValue(points[d].dt, v))} :
       /\ store' = w.store
       /\ disk' = w.disk
       /\ points' = [points EXCEPT ![d].dt = w.dt,
                                   ![d].typed = @ /\ Validate(WithValue(points[d].dt, v)),
                                   ![d].assigned = v]
       /\ last' = Called("set", d, v, w.wrote, w.out)
  /\ UNCHANGED <<cfgParser, cfgFile, hasRead, writeOnEdit, validateTypes, instances>>
  /\ UNCHANGED runVars

\* ------------------------------------------------------- converter runs
\* A converter run builds one converter, serializes it with str() and parses
\* the text back with convert, or parses a text given from outside.  The
\* Config layer stays as it is before any class is defined.
CfgIdle == CfgQuiet /\ disk = [f \in Files |-> EmptyIni]

Bases == {BINARY, OCTAL, DECIMAL, HEXADECIMAL}
Ints == (-MaxInt)..MaxInt

Begin(dt, input) ==
  /\ pc = "idle"
  /\ conv' = dt
  /\ inp' = input
  /\ text' = <<>>
  /\ res' = NoRes
  /\ loop' = NoLoop
  /\ pc' = "made"
  /\ UNCHANGED cfgVars

\* Integer(n, base=b)
NewInteger(n, b) == Begin(IntegerDT(IntV(n), b), IntV(n))

\* Hex(n), Octal(n), Binary(n)
NewHex(n) == Begin(HexDT(IntV(n)), IntV(n))
NewOctal(n) == Begin(OctalDT(IntV(n)), IntV(n))
NewBinary(n) == Begin(BinaryDT(IntV(n)), IntV(n))

\* Integer.__str__ up to the call of int_to_base: base 10 returns str(value);
\* int_to_base returns 0 at once for 0 and else enters its loop.
IntegerStrBegin ==
  /\ pc = "made"
  /\ conv.kind = "Integer"
  /\ IntOf(conv.value).ok
  /\ IF conv.base = DECIMAL
     THEN /\ text' = PyStr(conv.value)
          /\ pc' = "str"
          /\ UNCHANGED <<conv, loop>>
     ELSE IF IntOf(conv.value).v.i = 0
     THEN /\ conv' = [conv EXCEPT !.value = IntV(0)]
          /\ text' = TaggedText(conv.base, 0)
          /\ pc' = "str"
          /\ UNCHANGED loop
     ELSE /\ loop' = [number |-> IntOf(conv.value).v.i, digits |-> <<>>]
          /\ pc' = "loop"
          /\ UNCHANGED <<conv, text>>
  /\ UNCHANGED <<inp, res>>
  /\ UNCHANGED cfgVars

\* One iteration of the loop of int_to_base (followed for MaxDigits digits).
IntToBaseLoop ==
  /\ pc = "loop"
  /\ loop.number # 0
  /\ Len(loop.digits) < MaxDigits
  /\ loop' = IntToBaseStep(loop, conv.base)
  /\ UNCHANGED <<conv, inp, text, res, pc>>
  /\ UNCHANGED cfgVars

\* The loop ends: int_to_base returns, __str__ assigns self.value and returns.
IntToBaseExit ==
  /\ pc = "loop"
  /\ loop.number = 0
  /\ conv' = [conv EXCEPT !.value = IntV(IntToBaseReturn(loop.digits))]
  /\ text' = TaggedText(conv.base, IntToBaseReturn(loop.digits))
  /\ pc' = "str"
  /\ UNCHANGED <<inp, res, loop>>
  /\ UNCHANGED cfgVars

\* str(converter) of the converters whose __str__ has no loop.
Serialize ==
  /\ pc = "made"
  /\ conv.kind # "Integer"
  /\ \E s \in {Str(conv)} :
       /\ s.st = "ok"
       /\ text' = s.text
       /\ conv' = s.dt
  /\ pc' = "str"
  /\ UNCHANGED <<inp, res, loop>>
  /\ UNCHANGED cfgVars

\* converter.convert(str(converter))
ConvertBack ==
  /\ pc = "str"
  /\ res' = Convert(conv, text)
  /\ pc' = "done"
  /\ UNCHANGED <<conv, inp, text, loop>>
  /\ UNCHANGED cfgVars

\* Hex, Octal, Binary: convert of the serialized text without its prefix.
ConvertUnprefixed ==
  /\ pc = "str"
  /\ conv.kind \in {"Hex", "Octal", "Binary"}
  /\ text' = SubSeq(text, 3, Len(text))
  /\ res' = Convert(conv, text')
  /\ pc' = "done"
  /\ UNCHANGED <<conv, inp, loop>>
  /\ UNCHANGED cfgVars

\* An integer literal as it is written: an optional tag "<base>c", a sign,
\* and the values of its digits, most significant first.
Literals(b) ==
  { [kind |-> "literal", tagged |-> FALSE, tag |-> b, neg |-> neg, digits |-> ds] :
      neg \in BOOLEAN, ds \in UNION {[1..k -> 0..(b - 1)] : k \in 1..MaxLitLen} }
  \cup
  UNION { { [kind |-> "literal", tagged |-> TRUE, tag |-> tg, neg |-> neg, digits |-> ds] :
              neg \in BOOLEAN, ds \in UNION {[1..k -> 0..(tg - 1)] : k \in 1..MaxLitLen} } :
          tg \in Bases }

LiteralText(lit) ==
  (IF lit.tagged THEN IntStr(lit.tag) \o <<"c">> ELSE <<>>)
    \o (IF lit.neg THEN <<"-">> ELSE <<>>)
    \o [k \in 1..Len(lit.digits) |-> DigitChar(lit.digits[k])]

\* Integer(0, base=b).convert(text) on the text of a literal.
ConvertLiteral(b, lit) ==
  /\ pc = "idle"
  /\ conv' = IntegerDT(IntV(0), b)
  /\ inp' = lit
  /\ text' = LiteralText(lit)
  /\ res' = Convert(conv', text')
  /\ loop' = NoLoop
  /\ pc' = "parsed"
  /\ UNCHANGED cfgVars

InitRun == CfgIdle /\ RunQuiet

\* A run starts from the idle state only, so the inputs are drawn once.
NextInt ==
  \/ /\ pc = "idle"
     /\ \/ \E n \in Ints, b \in Bases : NewInteger(n, b)
        \/ \E n \in Ints : NewHex(n)
        \/ \E n \in Ints : NewOctal(n)
        \/ \E n \in Ints : NewBinary(n)
        \/ \E b \in Bases : \E lit \in Literals(b) : ConvertLiteral(b, lit)
  \/ IntegerStrBegin
  \/ IntToBaseLoop
  \/ IntToBaseExit
  \/ Serialize
  \/ ConvertBack
  \/ ConvertUnprefixed

SpecInt == InitRun /\ [][NextInt]_vars

\* str() runs on the single thread of the program: a serialization that was
\* started takes its next step as long as it has one.
SpecIntLive ==
  /\ InitRun
  /\ [][NextInt]_vars
  /\ WF_vars(IntegerStrBegin)
  /\ WF_vars(IntToBaseLoop)
  /\ WF_vars(IntToBaseExit)

\* ---- List
ListAlphabet == {"a", Separator, EscapeChar}
Elements == UNION {[1..k -> ListAlphabet] : k \in 0..MaxElemLen}
Lists == UNION {[1..k -> {StrV(e) : e \in Elements}] : k \in 0..MaxListLen}

\* List.__init__: the element converter is given, or cast from default[0].
ListInit(default, dataType) ==
  IF Len(default.l) <= 0 /\ dataType = Unset THEN Raise("InvalidDefaultError")
  ELSE IF dataType = Unset THEN Ok(ListDT(default, Cast(default.l[1]).v))
  ELSE Ok(ListDT(default, dataType))

\* List(l), and List([], data_type=String(""))
NewList(l) ==
  \E made \in {ListInit(ListV(l), IF l = <<>> THEN StringDT(StrV(<<>>)) ELSE Unset)} :
    /\ made.ok
    /\ Begin(made.v, ListV(l))

NextList ==
  \/ pc = "idle" /\ \E l \in Lists : NewList(l)
  \/ Serialize
  \/ ConvertBack

SpecList == InitRun /\ [][NextList]_vars

\* ---- Optional
\* The texts given to Optional.convert: a word, written in lower case, in
\* upper case or capitalized, between two runs of whitespace.
Words ==
  { <<"n","o","n","e">>, <<"n","u","l","l">>, <<"n","i","l">>,
    <<"n","o">>, <<"n","o","n","e","s">>, <<"7">>, <<"t","r","u","e">>, <<>> }
Cases == {"lower", "upper", "capitalized"}
Pads == UNION {[1..k -> Whitespace] : k \in 0..MaxPad}
OptionalInputs ==
  { [kind |-> "text", word |-> w, case |-> c, left |-> l, right |-> r] :
      w \in Words, c \in Cases, l \in Pads, r \in Pads }

Cased(word, case) ==
  CASE case = "lower" -> word
    [] case = "upper" -> Upper(word)
    [] case = "capitalized" ->
         [k \in 1..Len(word) |-> IF k = 1 THEN UpperChar(word[k]) ELSE word[k]]

InputText(in) == in.left \o Cased(in.word, in.case) \o in.right

\* The converters Optional wraps in the runs.
Inners == {IntegerDT(IntV(5), DECIMAL), StringDT(StrV(<<>>)), BooleanDT(BoolV(FALSE))}

\* Optional(X).convert(text)
OptionalConvertText(inner, in) ==
  /\ pc = "idle"
  /\ conv' = OptionalDT(inner)
  /\ inp' = in
  /\ text' = InputText(in)
  /\ res' = Convert(conv', text')
  /\ loop' = NoLoop
  /\ pc' = "parsed"
  /\ UNCHANGED cfgVars

\* The converters, each holding a value, that Optional wraps when it is
\* serialized.
WrappedInners ==
  { HexDT(IntV(10)), OctalDT(IntV(9)), IntegerDT(IntV(5), DECIMAL),
    StringDT(StrV(<<"a">>)), BooleanDT(BoolV(TRUE)) }

\* Optional(X)
NewOptional(inner) == Begin(OptionalDT(inner), ValueOf(inner))

NextOpt ==
  \/ /\ pc = "idle"
     /\ \/ \E inner \in Inners, in \in OptionalInputs : OptionalConvertText(inner, in)
        \/ \E inner \in WrappedInners : NewOptional(inner)
  \/ Serialize
  \/ ConvertBack

SpecOpt == InitRun /\ [][NextOpt]_vars

\* ---- Boolean
\* The texts given to Boolean.convert: a word in one of the cases between two
\* runs of whitespace.
BooleanWords ==
  { <<"t","r","u","e">>, <<"1">>, <<"y","e","s">>, <<"f","a","l","s","e">>, <<"0">>,
    <<"n","o">>, <<"m","a","y","b","e">>, <<"o","n">>, <<"y">>, <<"2">>, <<"t","r","u">>,
    <<>> }
BooleanInputs ==
  { [kind |-> "text", word |-> w, case |-> c, left |-> l, right |-> r] :
      w \in BooleanWords, c \in Cases, l \in Pads, r \in Pads }

\* Boolean().convert(text)
BooleanConvertText(in) ==
  /\ pc = "idle"
  /\ conv' = BooleanDT(BoolV(FALSE))
  /\ inp' = in
  /\ text' = InputText(in)
  /\ res' = Convert(conv', text')
  /\ loop' = NoLoop
  /\ pc' = "parsed"
  /\ UNCHANGED cfgVars

NextBool == pc = "idle" /\ \E in \in BooleanInputs : BooleanConvertText(in)

SpecBool == InitRun /\ [][NextBool]_vars

\* ---- TimeDelta
MaxDays == 2
MaxIsoPart == 12
\* The durations given to TimeDelta(...): a sign and the components of the
\* magnitude, hours below 24, minutes and seconds below 60.
Durations ==
  { [kind |-> "duration", neg |-> n, days |-> d, hours |-> h, minutes |-> m,
     seconds |-> s, microseconds |-> u] :
      n \in BOOLEAN, d \in 0..MaxDays, h \in {0, 1, 23}, m \in {0, 1, 59},
      s \in {0, 1, 59}, u \in {0, 1, 250000, 123456, 999999} }
\* timedelta(days=.., hours=.., minutes=.., seconds=.., microseconds=..),
\* negated for a negative duration.
MagnitudeOf(in) ==
  Timedelta(in.days * 86400 + in.hours * 3600 + in.minutes * 60 + in.seconds,
            in.microseconds)
DurationOf(in) == IF in.neg THEN NegDur(MagnitudeOf(in)) ELSE MagnitudeOf(in)

\* TimeDelta(d)
NewTimeDelta(in) == Begin(TimeDeltaDT(DurationOf(in)), in)

\* The ISO-8601 texts given to TimeDelta.convert: each component absent
\* (<<>>) or a whole number (<<n>>), a "T" exactly when a time component is
\* present, the designators in upper or lower case.
IsoParts == {<<>>, <<0>>, <<1>>, <<MaxIsoPart>>}
IsoInputs ==
  { [kind |-> "iso", case |-> c, y |-> y, mo |-> mo, d |-> d, h |-> h, mi |-> mi, s |-> s] :
      c \in {"lower", "upper"}, y \in IsoParts, mo \in IsoParts, d \in IsoParts,
      h \in IsoParts, mi \in IsoParts, s \in IsoParts }
IsoPart(n, letter) == IF n = <<>> THEN <<>> ELSE IntStr(n[1]) \o <<letter>>
IsoText(in) ==
  Cased(<<"p">> \o IsoPart(in.y, "y") \o IsoPart(in.mo, "m") \o IsoPart(in.d, "d")
          \o (IF in.h = <<>> /\ in.mi = <<>> /\ in.s = <<>> THEN <<>> ELSE <<"t">>)
          \o IsoPart(in.h, "h") \o IsoPart(in.mi, "m") \o IsoPart(in.s, "s"),
        in.case)

\* The other texts given to TimeDelta.convert, each with the class its
\* construction puts it in: blank, without a number-unit pair and not a
\* number, with an unknown unit, an ISO form without a component, or valid.
TimeWords ==
  { [word |-> <<>>, class |-> "blank"],
    [word |-> <<"a","b","c">>, class |-> "nopair"],
    [word |-> <<"a","-","b">>, class |-> "nopair"],
    [word |-> <<"h">>, class |-> "nopair"],
    [word |-> <<"1",".","5",".","2">>, class |-> "nopair"],
    [word |-> <<"1","x">>, class |-> "unknown"],
    [word |-> <<"2",".","5"," ","q">>, class |-> "unknown"],
    [word |-> <<"1","h"," ","2","x">>, class |-> "unknown"],
    [word |-> <<"p","t">>, class |-> "empty"],
    [word |-> <<"p">>, class |-> "empty"],
    [word |-> <<"5">>, class |-> "valid"],
    [word |-> <<"-","5">>, class |-> "valid"],
    [word |-> <<"1","h"," ","3","0","m">>, class |-> "valid"],
    [word |-> <<"9","0"," ","m","i","n","s">>, class |-> "valid"],
    [word |-> <<"1",":","3","0",":","0","0">>, class |-> "valid"],
    [word |-> <<"1",":","3","0">>, class |-> "valid"],
    [word |-> <<"1",".","5","h">>, class |-> "valid"] }
TimeInputs ==
  { [kind |-> "text", word |-> w.word, class |-> w.class, case |-> c, left |-> l,
     right |-> r] :
      w \in TimeWords, c \in Cases, l \in Pads, r \in Pads }

\* TimeDelta(timedelta(0)).convert(text)
TimeDeltaConvertText(in, t) ==
  /\ pc = "idle"
  /\ conv' = TimeDeltaDT(DurV(0, 0))
  /\ inp' = in
  /\ text' = t
  /\ res' = Convert(conv', text')
  /\ loop' = NoLoop
  /\ pc' = "parsed"
  /\ UNCHANGED cfgVars

NextTime ==
  \/ /\ pc = "idle"
     /\ \/ \E in \in Durations : NewTimeDelta(in)
        \/ \E in \in IsoInputs : TimeDeltaConvertText(in, IsoText(in))
        \/ \E in \in TimeInputs : TimeDeltaConvertText(in, InputText(in))
  \/ Serialize
  \/ ConvertBack

SpecTime == InitRun /\ [][NextTime]_vars

\* ------------------------------------------------------------ EnvParser
\* str.split("=", 1): the text before the first "=" and the text after it,
\* or the text alone.
SplitOnceAt(s, j) == <<SubSeq(s, 1, j - 1), SubSeq(s, j + 1, Len(s))>>
SplitOnce(s, c) ==
  IF ~Contains(s, c) THEN <<s>>
  ELSE SplitOnceAt(s, CHOOSE j \in 1..Len(s) : s[j] = c /\ \A m \in 1..(j - 1) : s[m] # c)

\* The value of a line without the pair of quotes around it.
Unquoted(value) ==
  IF value # <<>> /\ \/ Head(value) = "\"" /\ value[Len(value)] = "\""
                     \/ Head(value) = "'" /\ value[Len(value)] = "'"
  THEN SubSeq(value, 2, Len(value) - 1)
  ELSE value

\* The case [key, value] of EnvParser.read for one line.
EnvReadPair(data, environ, kv) ==
  IF Len(kv) = 2 /\ kv[1] \notin DOMAIN environ
  THEN (Strip(kv[1]) :> Unquoted(Strip(kv[2]))) @@ data
  ELSE data
\* The body of the loop of EnvParser.read for the stripped line.
EnvReadLine(data, environ, line) ==
  IF line = <<>> \/ Head(line) = "#" THEN data
  ELSE EnvReadPair(data, environ, SplitOnce(line, "="))
RECURSIVE EnvReadLines(_, _, _)
EnvReadLines(data, environ, lines) ==
  IF lines = <<>> THEN data
  ELSE EnvReadLines(EnvReadLine(data, environ, Strip(Head(lines))), environ, Tail(lines))

\* EnvParser.read: self.data after the call, for the process environment
\* and the file.
EnvParserRead(environ, file) ==
  IF ~file.exists THEN environ ELSE EnvReadLines(environ, environ, file.lines)

\* The process environments and the files of the runs: a file is missing or
\* holds up to MaxLines lines, each an assignment built from its parts, a
\* comment, a blank line or a word without "=".
MaxLines == 2
EnvKeys == {<<"K">>, <<"F">>}
Environs ==
  { <<>>, <<"K">> :> <<"e">>, (<<"K">> :> <<"e">>) @@ (<<"F">> :> <<"h">>) }
EnvPads == {<<>>, <<" ">>}
EnvLines ==
  { [kind |-> "pair", lead |-> a, key |-> k, sp1 |-> b, sp2 |-> c, value |-> v, quote |-> q] :
      a \in EnvPads, k \in EnvKeys, b \in EnvPads, c \in EnvPads,
      v \in {<<"f">>, <<"g", " ", "g">>}, q \in {"", "\"", "'"} }
  \cup { [kind |-> "other", text |-> t] : t \in {<<>>, <<"#", "K", "=", "f">>, <<"K">>} }
Quoted(v, q) == IF q = "" THEN v ELSE <<q>> \o v \o <<q>>
LineText(l) ==
  IF l.kind = "pair"
  THEN l.lead \o l.key \o l.sp1 \o <<"=">> \o l.sp2 \o Quoted(l.value, l.quote) \o <<"\n">>
  ELSE l.text \o <<"\n">>
EnvFiles ==
  {[exists |-> FALSE]}
    \cup { [exists |-> TRUE, lines |-> ls] : ls \in UNION {[1..n -> EnvLines] : n \in 0..MaxLines} }
FileText(f) ==
  IF f.exists THEN [exists |-> TRUE, lines |-> [k \in 1..Len(f.lines) |-> LineText(f.lines[k])]]
  ELSE f

\* parser = EnvParser(); parser.read(file)
EnvRead(environ, f) ==
  /\ pc = "idle"
  /\ conv' = [kind |-> "EnvParser", data |-> EnvParserRead(environ, FileText(f))]
  /\ inp' = [kind |-> "env", environ |-> environ, file |-> f]
  /\ res' = Ok(NoneV)
  /\ pc' = "read"
  /\ UNCHANGED <<text, loop>>
  /\ UNCHANGED cfgVars

NextEnv == pc = "idle" /\ \E environ \in Environs, f \in EnvFiles : EnvRead(environ, f)

SpecEnv == InitRun /\ [][NextEnv]_vars

\* -------------------------------------------------------- MsgspecParser
\* A dict of the parser's data: keys to scalars or to dicts.
DictV(m) == [t |-> "dict", m |-> m]
IsDict(x) == x.t = "dict"

\* section.split("."), and no part for the empty section, which names the
\* data itself.
SectionParts(section) == IF section = <<>> THEN <<>> ELSE Split(section, ".")

\* MsgspecParser._navigate_to_section: the loop over the parts from current
\* on and the return; NoneV stands for None.
RECURSIVE NavigateParts(_, _)
NavigateParts(current, parts) ==
  IF ~IsDict(current) THEN NoneV
  ELSE IF parts = <<>> THEN current
  ELSE IF Head(parts) \notin DOMAIN current.m THEN NoneV
  ELSE NavigateParts(current.m[Head(parts)], Tail(parts))
\* The data the loop leaves with create=True: current[part] = {} for each
\* missing part, up to a part that holds no dict.
RECURSIVE CreateParts(_, _)
CreateParts(current, parts) ==
  IF parts = <<>> \/ ~IsDict(current) THEN current
  ELSE DictV((Head(parts) :>
                CreateParts(IF Head(parts) \in DOMAIN current.m
                            THEN current.m[Head(parts)] ELSE DictV(<<>>),
                            Tail(parts)))
             @@ current.m)

\* MsgspecParser.has_section, has_option
MsgspecHasSection(data, section) == NavigateParts(data, SectionParts(section)) # NoneV
OptionIn(section_data, option) ==
  section_data # NoneV /\ option \in DOMAIN section_data.m
MsgspecHasOption(data, section, option) ==
  OptionIn(NavigateParts(data, SectionParts(section)), option)

\* MsgspecParser._parse_value
ParseValueNumber(value, asInt, asFloat) ==
  IF asInt.ok THEN asInt.v ELSE IF asFloat.ok THEN asFloat.v ELSE StrV(value)
ParseValue(value) ==
  IF value = <<"T","r","u","e">> THEN BoolV(TRUE)
  ELSE IF value = <<"F","a","l","s","e">> THEN BoolV(FALSE)
  ELSE ParseValueNumber(value, PyInt(value, DECIMAL), PyFloat(value))

\* section_data[option] = parsed_value in the dict at the path parts.
RECURSIVE PutOption(_, _, _, _)
PutOption(current, parts, option, value) ==
  IF parts = <<>> THEN DictV((option :> value) @@ current.m)
  ELSE DictV((Head(parts) :> PutOption(current.m[Head(parts)], Tail(parts), option, value))
             @@ current.m)
\* MsgspecParser.set: the data after the call.
MsgspecSetIn(created, parts, option, value) ==
  IF NavigateParts(created, parts) = NoneV THEN created
  ELSE PutOption(created, parts, option, ParseValue(value))
MsgspecSet(data, section, option, value) ==
  MsgspecSetIn(CreateParts(data, SectionParts(section)), SectionParts(section), option, value)

\* str(x) of a stored value; the text of a dict is kept as the dict it
\* renders.
StoredStr(x) == IF IsDict(x) THEN [repr |-> x] ELSE PyStr(x)
\* MsgspecParser.get without a fallback
MsgspecGetIn(section_data, option) ==
  IF ~OptionIn(section_data, option) THEN <<>> ELSE StoredStr(section_data.m[option])
MsgspecGet(data, section, option) ==
  MsgspecGetIn(NavigateParts(data, SectionParts(section)), option)

\* The sections, as the names joined by ".", the options and the values of
\* the calls.
SectionPaths == { << <<"A">> >>, << <<"A">>, <<"B">> >>, << <<"B">> >> }
SectionText(path) == Join(<<".">>, path)
OptionNames == { <<"x">>, <<"B">> }
StoredValues == { <<"v">>, <<"0","0","7">>, <<"T","r","u","e">>, <<"1",".","5">> }

\* parser = MsgspecParser()
NewMsgspecParser ==
  /\ pc = "idle"
  /\ conv' = [kind |-> "MsgspecParser", data |-> DictV(<<>>)]
  /\ inp' = [kind |-> "call", op |-> "init"]
  /\ res' = Ok(NoneV)
  /\ pc' = "called"
  /\ UNCHANGED <<text, loop>>
  /\ UNCHANGED cfgVars

\* parser.set(section, option, value)
MsgSet(path, option, value) ==
  /\ pc = "called"
  /\ conv.kind = "MsgspecParser"
  /\ conv' = [conv EXCEPT !.data = MsgspecSet(conv.data, SectionText(path), option, value)]
  /\ inp' = [kind |-> "call", op |-> "set", path |-> path, option |-> option,
             value |-> value]
  /\ res' = Ok(NoneV)
  /\ UNCHANGED <<text, loop, pc>>
  /\ UNCHANGED cfgVars

\* parser.get(section, option)
MsgGet(path, option) ==
  /\ pc = "called"
  /\ conv.kind = "MsgspecParser"
  /\ inp' = [kind |-> "call", op |-> "get", path |-> path, option |-> option]
  /\ res' = Ok(MsgspecGet(conv.data, SectionText(path), option))
  /\ UNCHANGED <<conv, text, loop, pc>>
  /\ UNCHANGED cfgVars

NextMsg ==
  \/ NewMsgspecParser
  \/ /\ pc = "called"
     /\ \/ \E path \in SectionPaths, option \in OptionNames, value \in StoredValues :
             MsgSet(path, option, value)
        \/ \E path \in SectionPaths, option \in OptionNames : MsgGet(path, option)

SpecMsg == InitRun /\ [][NextMsg]_vars

\* ------------------------------------------------- the Config specification
\* The defaults given to Config(...): plain values and converter instances.
Defaults ==
  { IntV(0), StrV(<<"d">>), BoolV(FALSE), FloatV(0), NoneV,
    StringDT(NoneV), IntegerDT(NoneV, DECIMAL), IntegerDT(IntV(10), HEXADECIMAL),
    OptionalDT(IntegerDT(IntV(0), DECIMAL)), Unset, ObjectV }

\* The values assigned to a point.
Assigned ==
  { IntV(5), IntV(-3), StrV(<<"a","%">>), BoolV(TRUE), FloatV(15), NoneV }

Init ==
  /\ CfgQuiet
  /\ disk \in [Files -> {EmptyIni, Preloaded}]
  /\ RunQuiet

Next ==
  \/ \E p \in Parsers : SetParser(p)
  \/ \E f \in Files : SetFile(f)
  \/ \E b \in BOOLEAN : SetWriteOnEdit(b)
  \/ \E b \in BOOLEAN : SetValidateTypes(b)
  \/ ConfigWrite
  \/ \E d \in PointIds, default \in Defaults, optional \in BOOLEAN :
       Construct(d, default, optional)
  \/ \E d \in PointIds, owner \in Owners, name \in AttrNames : SetName(d, owner, name)
  \/ \E d \in PointIds : Get(d)
  \/ \E d \in PointIds, v \in Assigned : Set(d, v)

Spec == Init /\ [][Next]_vars

\* ------------------------------------------------------ Config decorators
\* ConfigParser.get(section, option, fallback=...) as a Python value: a
\* missing section or option gives the fallback; a value that is present is
\* interpolated and returned as a str.
AsStr(r) == IF r.ok THEN Ok(StrV(r.v)) ELSE r
IniGetFallback(ini, section, option, fallback) ==
  IF ~HasOption(ini, section, option) THEN Ok(fallback)
  ELSE AsStr(Interpolate(ini.opts[<<section, option>>]))

\* What a decorated call is given: the section, the setting and the value.
Setting(section, setting, value) ==
  [section |-> section, setting |-> setting, value |-> value]

\* Config._set_default once the parser answered got.
SetDefaultGot(got, st, dk, section, setting, value) ==
  IF ~got.ok THEN [store |-> st, disk |-> dk, out |-> got]
  ELSE IF got.v = Unset THEN ConfigSet(st, dk, section, setting, PyStr(value))
  ELSE [store |-> st, disk |-> dk, out |-> Ok(NoneV)]
\* A _set_default that stores whatever the parser holds.
SetDefaultAlways(st, dk, section, setting, value) ==
  ConfigSet(st, dk, section, setting, PyStr(value))
\* Config._set_default
SetDefault(st, dk, section, setting, value) ==
  IF cfgParser = "UNSET" THEN [store |-> st, disk |-> dk, out |-> Raise("AttributeError")]
  ELSE SetDefaultGot(IniGetFallback(st[cfgParser], section, setting, Unset),
                     st, dk, section, setting, value)

\* A call of a function decorated with Config.set(section, setting, value).
DecoratedSet(section, setting, value) ==
  /\ Alive
  /\ \E w \in {ConfigSet(store, disk, section, setting, PyStr(value))} :
       /\ store' = w.store
       /\ disk' = w.disk
       /\ last' = Called("set()", "", Setting(section, setting, value),
                         w.store # store, w.out)
  /\ UNCHANGED <<cfgParser, cfgFile, hasRead, writeOnEdit, validateTypes, instances, points>>
  /\ UNCHANGED runVars

\* A call of a function decorated with Config.default(section, setting, value).
DecoratedDefault(section, setting, value) ==
  /\ Alive
  /\ \E w \in {SetDefault(store, disk, section, setting, value)} :
       /\ store' = w.store
       /\ disk' = w.disk
       /\ last' = Called("default()", "", Setting(section, setting, value),
                         w.store # store, w.out)
  /\ UNCHANGED <<cfgParser, cfgFile, hasRead, writeOnEdit, validateTypes, instances, points>>
  /\ UNCHANGED runVars

DecoSections == {"A", "S"}
DecoValues == {IntV(1), StrV(<<"5", "%">>)}
SetValues == {IntV(9)}

NextDeco ==
  \/ \E p \in Parsers : SetParser(p)
  \/ \E f \in Files : SetFile(f)
  \/ \E b \in BOOLEAN : SetWriteOnEdit(b)
  \/ ConfigWrite
  \/ \E d \in PointIds, default \in {IntV(0)} : Construct(d, default, FALSE)
  \/ \E d \in PointIds, name \in AttrNames : SetName(d, "o1", name)
  \/ \E d \in PointIds, v \in {IntV(5)} : Set(d, v)
  \/ \E section \in DecoSections, setting \in AttrNames, v \in SetValues :
       DecoratedSet(section, setting, v)
  \/ \E section \in DecoSections, setting \in AttrNames, v \in DecoValues :
       DecoratedDefault(section, setting, v)

SpecDeco == Init /\ [][NextDeco]_vars

\* ---------------------------------------------------- convert on a converter
\* A Config class as a Python value: what Reference holds.
ClassV(name) == [t |-> "class", name |-> name]
\* Reference(cls)
ReferenceDT(cls) == BaseDataType("Reference", ClassV(cls))

\* Path(text).resolve() as the name of the file in the working directory.
RECURSIVE PathName(_)
PathName(t) == IF t = <<>> THEN "" ELSE Head(t) \o PathName(Tail(t))
Resolved(t) == IF t = <<>> THEN "." ELSE PathName(t)

\* Reference.convert: the class it holds gets the file selected, by the
\* static Config.set_file, and is returned.
ReferenceConvert(dt, t) == [out |-> Ok(dt.value), file |-> Resolved(t)]

\* converter.convert(text) with the file Config._file names: the outcome and
\* the file Config._file names afterwards.
ConvertIn(dt, t, file) ==
  IF dt.kind = "Reference" THEN ReferenceConvert(dt, t)
  ELSE [out |-> Convert(dt, t), file |-> file]

\* The texts given to convert.
ConvTexts ==
  { <<>>, <<"7">>, <<"f","1">>, <<"f","2">>, <<"a", Separator, "b">>, <<"n","o","n","e">> }
ConfigClasses == {"Config", "OtherConfig"}

\* Reference(cls)
NewReference(cls) == Begin(ReferenceDT(cls), ClassV(cls))

\* converter.convert(t) on a converter that exists, once or again.
ConvertText(t) ==
  /\ pc \in {"made", "parsed"}
  /\ \E c \in {ConvertIn(conv, t, cfgFile)} :
       /\ res' = c.out
       /\ cfgFile' = c.file
  /\ text' = t
  /\ pc' = "parsed"
  /\ UNCHANGED <<conv, inp, loop>>
  /\ UNCHANGED <<cfgParser, hasRead, writeOnEdit, validateTypes, store, disk, instances,
                 points, last>>

NextRef ==
  \/ /\ pc = "idle"
     /\ \/ \E cls \in ConfigClasses : NewReference(cls)
        \/ \E l \in Lists : NewList(l)
        \/ \E inner \in WrappedInners : NewOptional(inner)
  \/ pc = "made" /\ \E f \in Files : SetFile(f)
  \/ \E t \in ConvTexts : ConvertText(t)

SpecRef == InitRun /\ [][NextRef]_vars

\* ---- List.convert of a given text
\* Longest text given to List.convert.
MaxTextLen == 4
ScanAlphabet == {"1", Separator, EscapeChar}
ScanTexts == UNION {[1..k -> ScanAlphabet] : k \in 0..MaxTextLen}
\* The element converters of the lists that parse a given text.
ScanElems == {StringDT(StrV(<<>>)), IntegerDT(IntV(0), DECIMAL)}

\* List([], data_type=elem).convert(t)
ListConvertText(elem, t) ==
  /\ pc = "idle"
  /\ conv' = ListDT(ListV(<<>>), elem)
  /\ inp' = [kind |-> "text"]
  /\ text' = t
  /\ res' = Convert(conv', t)
  /\ loop' = NoLoop
  /\ pc' = "parsed"
  /\ UNCHANGED cfgVars

NextScan == pc = "idle" /\ \E elem \in ScanElems, t \in ScanTexts : ListConvertText(elem, t)

SpecScan == InitRun /\ [][NextScan]_vars

\* ------------------------------------- several parsers, files and points
\* The program of examples/config_management.py: two parsers and two files
\* are selected in turn, two points are declared, and the owner classes o1
\* and o3 are distinct classes of the same name.  The first file is a fresh
\* one; the second may hold a value before the program starts.
SwitchParsers == {"p1", "p2"}
SwitchFiles == {"f1", "f2"}
SwitchPoints == {"d1", "d2"}
SwitchOwners == {"o1", "o2", "o3"}

InitSwitch ==
  /\ cfgParser = "UNSET"
  /\ cfgFile = "UNSET"
  /\ hasRead = FALSE
  /\ writeOnEdit = TRUE
  /\ validateTypes = TRUE
  /\ store = [p \in SwitchParsers |-> EmptyIni]
  /\ disk \in {[f \in SwitchFiles |-> IF f = "f1" THEN EmptyIni ELSE held] :
                held \in {EmptyIni, Preloaded}}
  /\ instances = <<>>
  /\ points = [d \in SwitchPoints |-> NoPoint]
  /\ last = NoCall
  /\ RunQuiet

NextSwitch ==
  \/ \E p \in SwitchParsers : SetParser(p)
  \/ \E f \in SwitchFiles : SetFile(f)
  \/ \E d \in SwitchPoints : Construct(d, IntV(0), FALSE)
  \/ \E d \in SwitchPoints, owner \in SwitchOwners, name \in AttrNames :
       SetName(d, owner, name)
  \/ \E d \in SwitchPoints : Get(d)
  \/ \E d \in SwitchPoints : Set(d, IntV(5))

SpecSwitch == InitSwitch /\ [][NextSwitch]_vars

\* ================================================================== claims
\* The points of C1: declared, not optional, with an int, str, bool or float
\* default.
PrimitiveDefaults == {IntV(0), StrV(<<"d">>), BoolV(FALSE), FloatV(0)}
IsPrimitivePoint(pt) ==
  /\ pt.made
  /\ pt.declared
  /\ ~pt.optional
  /\ \E v \in PrimitiveDefaults : Cast(v).v = WithValue(pt.dt, DefaultOf(pt.dt))

\* C1 (as stated): on a point declared with an int, str, bool or float
\* default, an assignment of a value of the default's type completes, and a
\* read that follows returns the value assigned last.
C1_SetThenGet ==
  \A d \in PointIds :
    ( /\ IsPrimitivePoint(points[d])
      /\ points[d].assigned # Unset
      /\ points[d].assigned.t = DefaultOf(points[d].dt).t
      /\ last.d = d )
    => /\ last.op = "set" => last.out.ok
       /\ last.op = "get" => last.out = Ok(points[d].assigned)

\* C2: the step that declares a point in an owner class leaves the stored
\* text of an option that exists unchanged, and otherwise creates the option
\* so that it reads as the string form of the default.
C2_DeclarationMaterializes ==
  [][\A d \in PointIds :
       (points[d].made /\ ~points[d].declared /\ points'[d].declared)
       => IF HasOption(store[cfgParser], points'[d].section, points'[d].setting)
          THEN store'[cfgParser].opts[<<points'[d].section, points'[d].setting>>]
                 = store[cfgParser].opts[<<points'[d].section, points'[d].setting>>]
          ELSE Str(points[d].dt).st = "ok"
               => IniGet(store'[cfgParser], points'[d].section, points'[d].setting)
                    = Ok(Str(points[d].dt).text)]_vars

\* C2 witness: a point with default 0 was declared over an option the file
\* already held as "7", and the option still holds "7".
C2_Witness ==
  /\ last.op = "set_name"
  /\ ~last.wrote
  /\ DefaultOf(points["d1"].dt) = IntV(0)
  /\ HasOption(store[cfgParser], "A", "x")
  /\ store[cfgParser].opts[<<"A", "x">>] = <<"7">>

\* C3: a step through Config._set with write_on_edit true leaves the file
\* equal to the whole store; with write_on_edit false it leaves the file as it
\* was; Config.write() puts the store into the file; and no other step changes
\* a file.
C3_WriteOnEdit ==
  [][ /\ (last'.op \in {"set", "set_name"} /\ last'.wrote /\ writeOnEdit)
           => disk'[cfgFile] = store'[cfgParser]
      /\ (last'.op \in {"set", "set_name"} /\ last'.wrote /\ ~writeOnEdit)
           => disk' = disk
      /\ (last'.op = "write" /\ last'.out.ok) => disk'[cfgFile] = store[cfgParser]
      /\ disk' # disk => \/ last'.op = "write"
                         \/ last'.op \in {"set", "set_name"} /\ last'.wrote /\ writeOnEdit
    ]_vars

\* C3 witness: an assignment went through Config._set with write_on_edit
\* true, and the file holds the option as the store does.
C3_Witness ==
  /\ last.op = "set"
  /\ last.wrote
  /\ writeOnEdit
  /\ HasOption(store[cfgParser], "A", "x")
  /\ disk[cfgFile] = store[cfgParser]

\* C4 (as stated): serializing Integer(n, base=b) and converting the text
\* back with the same converter yields n.
C4_IntegerRoundTrip ==
  (pc = "done" /\ conv.kind = "Integer") => res = Ok(inp)

\* The value of a literal: its digits by Horner's rule, then its sign.
RECURSIVE DigitsNumber(_, _)
DigitsNumber(ds, b) ==
  IF ds = <<>> THEN 0
  ELSE DigitsNumber(SubSeq(ds, 1, Len(ds) - 1), b) * b + ds[Len(ds)]
LiteralValue(lit, b) ==
  IF lit.neg THEN -DigitsNumber(lit.digits, b) ELSE DigitsNumber(lit.digits, b)

\* C5 (as stated): Integer(base=b).convert returns the value of the digits in
\* base b for a tagged literal whose tag is b and for a bare literal of base
\* b, and raises ValueError for a tagged literal whose tag is not b.
C5_ConvertAccepts ==
  (pc = "parsed" /\ inp.kind = "literal")
  => res = IF inp.tagged /\ inp.tag # conv.base THEN Raise("ValueError")
           ELSE Ok(IntV(LiteralValue(inp, conv.base)))

\* The numeral of n in base b: "-" exactly when n < 0, then digits of the
\* base without a leading zero whose place values add up to the magnitude.
NumeralDigits == <<"0","1","2","3","4","5","6","7","8","9","a","b","c","d","e","f">>
RECURSIVE PlaceValue(_, _)
PlaceValue(s, b) ==
  IF s = <<>> THEN 0
  ELSE PlaceValue(SubSeq(s, 1, Len(s) - 1), b) * b
         + ((CHOOSE k \in 1..Len(NumeralDigits) : NumeralDigits[k] = s[Len(s)]) - 1)
IsMagnitude(s, m, b) ==
  /\ s # <<>>
  /\ \A k \in 1..Len(s) : \E j \in 1..b : NumeralDigits[j] = s[k]
  /\ (Len(s) > 1 => s[1] # "0")
  /\ PlaceValue(s, b) = m
IsNumeral(s, n, b) ==
  IF n < 0 THEN s # <<>> /\ s[1] = "-" /\ IsMagnitude(Tail(s), -n, b)
  ELSE IsMagnitude(s, n, b)

PrefixOf(kind) ==
  CASE kind = "Hex" -> <<"0","x">>
    [] kind = "Octal" -> <<"0","o">>
    [] kind = "Binary" -> <<"0","b">>
BaseOf(kind) ==
  CASE kind = "Hex" -> 16
    [] kind = "Octal" -> 8
    [] kind = "Binary" -> 2

\* C6: str(Hex(n)), str(Octal(n)), str(Binary(n)) is the prefix followed by
\* the numeral of n in the base, and convert returns n for that text and for
\* the text without the prefix.
C6_PrefixedRoundTrip ==
  conv.kind \in {"Hex", "Octal", "Binary"}
  => /\ pc = "str" => /\ SubSeq(text, 1, 2) = PrefixOf(conv.kind)
                      /\ IsNumeral(SubSeq(text, 3, Len(text)), inp.i, BaseOf(conv.kind))
     /\ pc = "done" => res = Ok(inp)

\* C6 witness: Hex(-10) was serialized and its text without the prefix, "-a",
\* converted back to -10.
C6_Witness ==
  /\ pc = "done"
  /\ conv.kind = "Hex"
  /\ inp = IntV(-10)
  /\ text = <<"-", "a">>
  /\ res = Ok(IntV(-10))

\* C7 (as stated): for every non-empty list of strings, converting the
\* serialized list yields the list.
C7_ListRoundTrip ==
  (pc = "done" /\ conv.kind = "List" /\ inp.l # <<>>) => res = Ok(inp)

\* The escaped form of an element, character by character.
EscapedElement(e) ==
  Flatten([k \in 1..Len(e) |->
             IF e[k] = "\\" THEN <<"\\", "\\">>
             ELSE IF e[k] = "," THEN <<"\\", ",">>
             ELSE <<e[k]>>])

\* C7 (amended): the serialized list is its escaped elements joined by ",",
\* and for every non-empty list other than [""] converting the serialized
\* list yields the list.
C7_ListRoundTripAmended ==
  conv.kind = "List"
  => /\ pc \in {"str", "done"}
          => text = Join(<<",">>, [k \in 1..Len(inp.l) |-> EscapedElement(inp.l[k].s)])
     /\ (pc = "done" /\ inp.l # <<>> /\ inp.l # <<StrV(<<>>)>>) => res = Ok(inp)

\* C7 witness: a list whose elements hold the escape character and the
\* separator came back from its serialized text.
C7_Witness ==
  /\ pc = "done"
  /\ conv.kind = "List"
  /\ inp.l = <<StrV(<<"\\", ",">>), StrV(<<",">>)>>
  /\ res = Ok(inp)

\* The converter's current value is an instance of its declared type, or None
\* when the converter is optional.
RECURSIVE ValueIsTyped(_)
ValueIsTyped(dt) ==
  IF dt.kind = "Optional" THEN ValueOf(dt) = NoneV \/ ValueIsTyped(dt.inner)
  ELSE IsInstance(dt.value, dt.kind)

Converted(pt) ==
  Convert(pt.dt, IniGet(store[cfgParser], pt.section, pt.setting).v)
RECURSIVE DeclaredKind(_)
DeclaredKind(dt) == IF dt.kind = "Optional" THEN DeclaredKind(dt.inner) ELSE dt.kind
IsOptionalPoint(pt) == pt.optional \/ pt.dt.kind = "Optional"
\* A read with validation that got as far as a converted value.
ValidatedRead(d) ==
  /\ last.op = "get"
  /\ last.d = d
  /\ validateTypes
  /\ IniGet(store[cfgParser], points[d].section, points[d].setting).ok
  /\ Converted(points[d]).ok

\* C9 (as stated): a read with validation raises InvalidConverterError when
\* the converted value is not an instance of the declared type (and is not
\* None for an optional point), and otherwise returns the converted value.
C9_ReadValidates ==
  \A d \in PointIds :
    ValidatedRead(d)
    => last.out =
         IF \/ IsInstance(Converted(points[d]).v, DeclaredKind(points[d].dt))
            \/ Converted(points[d]).v = NoneV /\ IsOptionalPoint(points[d])
         THEN Converted(points[d])
         ELSE Raise("InvalidConverterError")

\* C9 (amended): a read with validation raises InvalidConverterError when the
\* converter's current value (the default or the value assigned last) is not
\* an instance of the declared type, or when the type of the converted value
\* is not the type of the default (None being allowed for an optional point),
\* and otherwise returns the converted value.
C9_ReadValidatesAmended ==
  \A d \in PointIds :
    ValidatedRead(d)
    => last.out =
         IF /\ ValueIsTyped(points[d].dt)
            /\ \/ Converted(points[d]).v.t = DefaultOf(points[d].dt).t
               \/ Converted(points[d]).v = NoneV /\ IsOptionalPoint(points[d])
         THEN Converted(points[d])
         ELSE Raise("InvalidConverterError")

\* C9 witness: String(None) holds "None"; the converted value is a str, and
\* the read raised InvalidConverterError.
C9_Witness ==
  /\ ValidatedRead("d1")
  /\ points["d1"].dt.kind = "String"
  /\ Converted(points["d1"]) = Ok(StrV(<<"N","o","n","e">>))
  /\ last.out = Raise("InvalidConverterError")

\* The null tokens, as the inputs of the runs spell their words.
NullWords == {<<"n","o","n","e">>, <<"n","u","l","l">>, <<"n","i","l">>}

\* C10 (as stated): Optional(X).convert(s) returns None when s is a null
\* token in any case, and otherwise does what X.convert(s) does.
C10_OptionalConvert ==
  (pc = "parsed" /\ conv.kind = "Optional")
  => res = IF inp.word \in NullWords /\ inp.left = <<>> /\ inp.right = <<>>
           THEN Ok(NoneV)
           ELSE Convert(conv.inner, text)

\* C10 (amended): Optional(X).convert(s) returns None when s without its
\* surrounding whitespace is a null token in any case, and otherwise does
\* what X.convert(s) does.
C10_OptionalConvertAmended ==
  (pc = "parsed" /\ conv.kind = "Optional")
  => res = IF inp.word \in NullWords THEN Ok(NoneV) ELSE Convert(conv.inner, text)

\* C10 witness: Optional(String("")) converted " Nil\n" to None.
C10_Witness ==
  /\ pc = "parsed"
  /\ conv = OptionalDT(StringDT(StrV(<<>>)))
  /\ text = <<" ", "N", "i", "l", "\n">>
  /\ res = Ok(NoneV)

\* C11 (as stated): str(Optional(X)) is str(X) for every X that holds a
\* value, and converting that text back yields the value.
C11_OptionalDelegatesStr ==
  conv.kind = "Optional"
  => /\ pc \in {"str", "done"} => text = Str(conv.inner).text
     /\ pc = "done" => res = Ok(inp)

\* C12: Boolean.convert returns True for "true", "1", "yes" and False for
\* "false", "0", "no" in any case, and raises ValueError for every other
\* text, a token between whitespace included.
C12_BooleanConvert ==
  (pc = "parsed" /\ conv.kind = "Boolean")
  => res = IF inp.left # <<>> \/ inp.right # <<>> THEN Raise("ValueError")
           ELSE IF inp.word \in {<<"t","r","u","e">>, <<"1">>, <<"y","e","s">>}
           THEN Ok(BoolV(TRUE))
           ELSE IF inp.word \in {<<"f","a","l","s","e">>, <<"0">>, <<"n","o">>}
           THEN Ok(BoolV(FALSE))
           ELSE Raise("ValueError")

\* C12 witness: Boolean.convert("YES") returned True.
C12_Witness ==
  /\ pc = "parsed"
  /\ conv.kind = "Boolean"
  /\ text = <<"Y", "E", "S">>
  /\ res = Ok(BoolV(TRUE))

\* C13: for every duration d, negative ones and ones with a sub-second part
\* included, TimeDelta.convert(str(TimeDelta(d))) is d exactly.
C13_TimeDeltaRoundTrip ==
  (conv.kind = "TimeDelta" /\ pc = "done") => res = Ok(DurationOf(inp))

\* C14: TimeDelta.convert raises ValueError, and returns no duration, for a
\* blank text, for a text without a number-unit pair that is not a bare
\* number, for a number with an unknown unit, and for an ISO-8601 form
\* without any component.
C14_ConvertRejects ==
  (pc = "parsed" /\ conv.kind = "TimeDelta" /\ inp.kind = "text"
     /\ inp.class \in {"blank", "nopair", "unknown", "empty"})
  => res = Raise("ValueError")

\* One component of the text: the number and its designator, nothing for 0.
Component(n, letter) == IF n = 0 THEN <<>> ELSE IntStr(n) \o <<letter>>

PartValue(n) == IF n = <<>> THEN 0 ELSE n[1]

\* C16: for a well-formed ISO-8601 duration with whole components, each
\* optional, the designators in either case, TimeDelta.convert returns
\* exactly (365*y + 30*mo + d)*86400 + 3600*h + 60*mi + s seconds.
C16_IsoSeconds ==
  (pc = "parsed" /\ conv.kind = "TimeDelta" /\ inp.kind = "iso")
  => res = Ok(DurV((365 * PartValue(inp.y) + 30 * PartValue(inp.mo) + PartValue(inp.d)) * 86400
                     + 3600 * PartValue(inp.h) + 60 * PartValue(inp.mi) + PartValue(inp.s),
                   0))
C16_Witness ==
  /\ pc = "parsed" /\ conv.kind = "TimeDelta"
  /\ text = <<"p", "1", "y", "1", "2", "m", "t", "1", "m">>
  /\ res = Ok(DurV(62640060, 0))

\* A default Config.__init__ does not accept: none given, or a value that
\* is no bool, int, float, str, None or converter.
BadDefault(default) ==
  \/ default = Unset
  \/ ~IsConverter(default) /\ default.t \notin {"bool", "int", "float", "str", "none"}

\* C17: Config(default, optional=...) raises InvalidDefaultError when no
\* default is given or the default has an unsupported type; with an
\* acceptable default it raises ValueError while the file or the parser is
\* not set; and a construction that raises leaves the parsers, the files
\* and the per-class parsers as they were.
C17_ConstructionErrors ==
  [][ \A d \in PointIds, default \in Defaults, optional \in BOOLEAN :
        Construct(d, default, optional)
        => /\ BadDefault(default) => last'.out = Raise("InvalidDefaultError")
           /\ (~BadDefault(default) /\ (cfgFile = "UNSET" \/ cfgParser = "UNSET"))
                => last'.out = Raise("ValueError")
           /\ ~last'.out.ok
                => (store' = store /\ disk' = disk /\ instances' = instances
                    /\ points' = points)
    ]_vars
\* C17 witness: with the parser and the file set, a construction with a
\* default of an unsupported type raised InvalidDefaultError.
C17_Witness ==
  /\ last.op = "init" /\ last.arg = ObjectV
  /\ cfgFile # "UNSET" /\ cfgParser # "UNSET"
  /\ last.out = Raise("InvalidDefaultError")
  /\ store[cfgParser] = EmptyIni

\* The lines of the file that assign key k, in the order of the file.
LinesOf(f, k) ==
  IF f.exists
  THEN SelectSeq(f.lines, LAMBDA l : l.kind = "pair" /\ l.key = k)
  ELSE <<>>

\* C18: after EnvParser.read(file), every key of the process environment
\* has the environment's value, whatever the file holds for it and with any
\* whitespace around the key or the "="; a key only the file defines has the
\* value of the file.
C18_EnvShadowsFile ==
  (pc = "read" /\ conv.kind = "EnvParser")
  => /\ \A k \in DOMAIN inp.environ :
          k \in DOMAIN conv.data /\ conv.data[k] = inp.environ[k]
     /\ \A k \in EnvKeys \ DOMAIN inp.environ :
          LinesOf(inp.file, k) # <<>>
          => /\ k \in DOMAIN conv.data
             /\ conv.data[k] = LinesOf(inp.file, k)[Len(LinesOf(inp.file, k))].value

\* The value stored for an option of a section.
StoredOption(data, path, option) == NavigateParts(data, path).m[option]

\* C19: after MsgspecParser.set(section, option, value) with a dotted
\* section, has_section is true for the section and for each of its dotted
\* prefixes, has_option(section, option) is true, and every option stored
\* before in another section or under another name is unchanged.
C19_SetCreatesPath ==
  [][ (conv'.kind = "MsgspecParser" /\ inp'.op = "set")
      => /\ \A k \in 1..Len(inp'.path) :
              MsgspecHasSection(conv'.data, SectionText(SubSeq(inp'.path, 1, k)))
         /\ MsgspecHasOption(conv'.data, SectionText(inp'.path), inp'.option)
         /\ \A path \in SectionPaths, option \in OptionNames :
              ( /\ <<path, option>> # <<inp'.path, inp'.option>>
                /\ MsgspecHasOption(conv.data, SectionText(path), option) )
              => /\ MsgspecHasOption(conv'.data, SectionText(path), option)
                 /\ StoredOption(conv'.data, path, option) = StoredOption(conv.data, path, option)
    ]_vars

\* C20: MsgspecParser.get(section, option) called after set(section, option,
\* v) returns exactly the string v.
C20_GetReturnsSet ==
  [][ ( /\ conv.kind = "MsgspecParser" /\ inp.op = "set" /\ inp'.op = "get"
        /\ inp'.path = inp.path /\ inp'.option = inp.option )
      => res' = Ok(inp.value)
    ]_vars

\* The text the parser of the program holds for section.setting: <<>> when it
\* holds none, <<text>> otherwise.
Held(st, section, setting) ==
  IF cfgParser # "UNSET" /\ HasOption(st[cfgParser], section, setting)
  THEN <<st[cfgParser].opts[<<section, setting>>]>>
  ELSE <<>>

\* C21: a call of a function decorated with Config.default(section, setting, v)
\* stores v (the sanitized str(v), which reads back as str(v)) only when the
\* parser holds no value for section.setting, and changes neither the parser
\* nor the file when it holds one; so once the setting was written (by an
\* assignment to a point or by a function decorated with Config.set), a later
\* decorated call never changes what is stored.
C21_DefaultKeepsExisting ==
  [][\A section \in DecoSections, setting \in AttrNames, v \in DecoValues :
       DecoratedDefault(section, setting, v) =>
         /\ Held(store, section, setting) # <<>> => store' = store /\ disk' = disk
         /\ (cfgParser # "UNSET" /\ Held(store, section, setting) = <<>>) =>
              /\ Held(store', section, setting) = <<SanitizeStr(PyStr(v))>>
              /\ IniGet(store'[cfgParser], section, setting) = Ok(PyStr(v))
         /\ \A s \in DecoSections \cup {"B"}, k \in AttrNames :
              <<s, k>> # <<section, setting>> => Held(store', s, k) = Held(store, s, k)]_vars

\* C21 happens: a decorated default call returned after the setting had been
\* written with another value, which is still the one stored.
C21_Witness ==
  /\ last.op = "default()"
  /\ last.out.ok
  /\ \/ Held(store, last.arg.section, last.arg.setting) = <<<<"9">>>>
     \/ Held(store, last.arg.section, last.arg.setting) = <<<<"5">>>>

\* C22: convert(s) is a pure function of its input for every converter: a
\* call changes neither the converter (its default, its current value) nor
\* the parser, the file or any other part of the global configuration,
\* whether it returns or raises, and a second call with the same text gives
\* the same outcome as the first.
C22_ConvertIsPure ==
  [][\A t \in ConvTexts :
       ConvertText(t) =>
         /\ conv' = conv
         /\ UNCHANGED cfgVars
         /\ (pc = "parsed" /\ text = t) => res' = res]_vars

\* The escape characters that stand in a row right before position k.
RECURSIVE EscapesBefore(_, _)
EscapesBefore(t, k) ==
  IF k > 1 /\ t[k - 1] = EscapeChar THEN 1 + EscapesBefore(t, k - 1) ELSE 0
\* A separator is unescaped when an even number of escape characters stands
\* right before it.
UnescapedAt(t, k) == t[k] = Separator /\ EscapesBefore(t, k) % 2 = 0
UnescapedSeparators(t) == Cardinality({k \in 1..Len(t) : UnescapedAt(t, k)})

\* C23: List.convert returns the empty list exactly for the empty text; for
\* a non-empty text a result has one more element than the text has
\* unescaped separators, the field after the last separator being emitted
\* even when it is empty; with String elements every text has a result
\* (with other elements convert raises what the element converter raises).
C23_ListConvertFields ==
  (pc = "parsed" /\ conv.kind = "List") =>
    /\ res = Ok(ListV(<<>>)) <=> text = <<>>
    /\ (text # <<>> /\ res.ok) => Len(res.v.l) = UnescapedSeparators(text) + 1
    /\ conv.elem.kind = "String" =>
         /\ res.ok
         /\ (text # <<>> /\ UnescapedAt(text, Len(text)))
              => res.v.l[Len(res.v.l)] = StrV(<<>>)
    /\ ~res.ok => res.err = "ValueError" /\ conv.elem.kind = "Integer"

\* C23 happens: a text that ends with a separator after an escaped escape
\* character gave two fields, the last one empty.
C23_Witness ==
  /\ pc = "parsed" /\ conv.kind = "List"
  /\ text = <<EscapeChar, EscapeChar, Separator>>
  /\ res = Ok(ListV(<<StrV(<<EscapeChar>>), StrV(<<>>)>>))

\* C24: a read of a point re-parses the stored text and sets the current
\* value of the point's converter to the result: after a read that returned,
\* the converter's current value is what convert gives for the text the
\* parser holds for the point, which is the value the read returned.
C24_ValueFollowsStore ==
  \A d \in PointIds :
    (last.op = "get" /\ last.d = d /\ last.out.ok)
    => /\ IniGet(store[cfgParser], points[d].section, points[d].setting).ok
       /\ Convert(points[d].dt,
                  IniGet(store[cfgParser], points[d].section, points[d].setting).v)
            = Ok(ValueOf(points[d].dt))
       /\ last.out.v = ValueOf(points[d].dt)

\* C25: str() of a converter leaves its current value and its default as
\* they were, so a second str() right after the first returns the same text;
\* for Integer with every base of {2, 8, 10, 16} as for the other converters.
C25_StrKeepsValue ==
  (pc = "str" /\ conv.kind = "Integer") =>
    /\ ValueOf(conv) = inp
    /\ DefaultOf(conv) = inp
    /\ Str(conv) = Returned(text, conv)

\* The distance of an int from 0.
Magnitude(n) == IF n < 0 THEN -n ELSE n

\* C26: str() of an Integer with base 2, 8 or 16 terminates for every value,
\* the negative ones included.  The loop of int_to_base runs while number is
\* not 0 and changes number only by "number //= base": it ends only if every
\* iteration brings number closer to 0, so in no state of the loop does an
\* iteration leave number as far from 0 as it was.
C26_IntegerStrTerminates ==
  (pc = "loop" /\ conv.base \in {BINARY, OCTAL, HEXADECIMAL} /\ loop.number # 0)
    => Magnitude(IntToBaseStep(loop, conv.base).number) < Magnitude(loop.number)

\* C27: after a write through a point, the text stored for the point is one
\* the point's convert accepts: an assignment whose text cannot be read back
\* raises and leaves the parser as it was.
C27_StoredIsReadable ==
  \A d \in PointIds :
    (last.op = "set" /\ last.d = d /\ last.wrote /\ DeclaredKind(points[d].dt) = "Integer")
    => /\ IniGet(store[cfgParser], points[d].section, points[d].setting).ok
       /\ Converted(points[d]).ok

\* Another parser and another file (a fresh one when the program started)
\* hold what an earlier declaration wrote, while the parser selected now
\* holds nothing yet.
NewlySelected ==
  /\ cfgParser \in SwitchParsers
  /\ cfgFile \in SwitchFiles
  /\ store[cfgParser] = EmptyIni
  /\ \E p \in SwitchParsers \ {cfgParser}, f \in SwitchFiles \ {cfgFile} :
       store[p] # EmptyIni /\ disk[f] = store[p]

\* C28: once another parser and another file were selected, the declaration
\* of the next point (its construction, then __set_name__) loads the selected
\* file into the selected parser before the default is materialized: a value
\* the file held for the point is still in the file afterwards and is what
\* the parser holds, although an earlier declaration set the has-read flag.
C28_DeclarationLoadsSelectedFile ==
  [][\A d \in SwitchPoints, owner \in SwitchOwners, name \in AttrNames :
       ( /\ SetName(d, owner, name)
         /\ last.op = "init" /\ last.d = d /\ last.out.ok
         /\ NewlySelected
         /\ HasOption(disk[cfgFile], ClassName(owner), name) )
       => /\ HasOption(disk'[cfgFile], ClassName(owner), name)
          /\ disk'[cfgFile].opts[<<ClassName(owner), name>>]
               = disk[cfgFile].opts[<<ClassName(owner), name>>]
          /\ IniGet(store'[cfgParser], ClassName(owner), name)
               = Interpolate(Strip(disk[cfgFile].opts[<<ClassName(owner), name>>]))]_vars

\* C29: the parser a declared point consults for its original value
\* (_get_parser) is the parser that default materialization and writes
\* modify and that reads consult (Config._parser), so the declaration of a
\* point completes without error and finds the option it materialized.
C29_DeclarationCompletes ==
  \A d \in PointIds :
    (last.op = "set_name" /\ last.d = d)
    => /\ GetParser(instances, store, points[d].section) = store[cfgParser]
       /\ last.out.ok
       /\ points[d].private

\* The two points were declared in two distinct owner classes.
DistinctOwners == Len(instances) = Cardinality(SwitchPoints)

\* C30: a write to a point changes only the point's own entry: what a read
\* of any other declared point gives is the same before and after the write,
\* also for a point with the same attribute name in a distinct owner class of
\* the same class name, and for a point declared while another parser and
\* file were selected.
C30_WriteIsLocal ==
  [][\A d \in SwitchPoints :
       (Set(d, IntV(5)) /\ DistinctOwners)
       => \A e \in SwitchPoints \ {d} :
            (points[e].made /\ points[e].declared)
            => ReadPoint(points'[e], store'[cfgParser], validateTypes)
                 = ReadPoint(points[e], store[cfgParser], validateTypes)]_vars

====
